---------------------------- MODULE Spec2Model ----------------------------
(***************************************************************************)
(* A model of the music21 feature extractor of ScoreBase                   *)
(* (rag/extract.py): the per-score cache, the multi-movement predicate,    *)
(* the analyzers and the aggregator extract().                             *)
(*                                                                         *)
(* Text is modelled as a sequence of one-character strings, so that        *)
(* lower-casing, joining and substring search are computed, not assumed.   *)
(* The character e-acute is written "e_acute" ("E_acute" in upper case).   *)
(***************************************************************************)
EXTENDS Integers, Sequences, FiniteSets, TLC

VARIABLES
    score,    \* the input of the run: the parsed score and what its accessors do
    pc,       \* the position of the run
    result,   \* extract's result dict (key -> value), internal keys included
    cache,    \* the fields of the run's ScoreCache
    runs,     \* how often each underlying library computation was executed
    trace,    \* the calls made so far: cache accesses, analyzer invocations
    failures, \* the exceptions raised so far, with the handler that caught each
    ret       \* the value returned by the function under study

vars == <<score, pc, result, cache, runs, trace, failures, ret>>

(***************************************************************************)
(* Bounds of the explored inputs.                                          *)
(***************************************************************************)
MaxTexts == 2
MaxMeasures == 3
MaxAccess == 4
MaxFaults == 1
MaxParts == 3
MaxPaths == 3
MaxWorkers == 3
MaxChords == 3
MaxNotes == 3
MaxWindows == 4

(***************************************************************************)
(* Text helpers: str.lower, " ".join and the substring test `a in b`.      *)
(***************************************************************************)
LowerOf ==
    ("A" :> "a") @@ ("B" :> "b") @@ ("C" :> "c") @@ ("D" :> "d") @@ ("E" :> "e") @@ ("F" :> "f") @@
    ("G" :> "g") @@ ("H" :> "h") @@ ("I" :> "i") @@ ("J" :> "j") @@ ("K" :> "k") @@ ("L" :> "l") @@
    ("M" :> "m") @@ ("N" :> "n") @@ ("O" :> "o") @@ ("P" :> "p") @@ ("Q" :> "q") @@ ("R" :> "r") @@
    ("S" :> "s") @@ ("T" :> "t") @@ ("U" :> "u") @@ ("V" :> "v") @@ ("W" :> "w") @@ ("X" :> "x") @@
    ("Y" :> "y") @@ ("Z" :> "z") @@
    ("E_acute" :> "e_acute")

\* str.lower(), one character
LowerChar(c) == IF c \in DOMAIN LowerOf THEN LowerOf[c] ELSE c

\* str.lower()
Lower(s) == [i \in 1..Len(s) |-> LowerChar(s[i])]

\* " ".join(xs)
RECURSIVE Join(_)
Join(xs) ==
    IF xs = <<>> THEN <<>>
    ELSE IF Len(xs) = 1 THEN xs[1]
    ELSE xs[1] \o <<" ">> \o Join(Tail(xs))

\* the substring test `sub in s`
Contains(sub, s) ==
    \E i \in 1..(Len(s) - Len(sub) + 1) : SubSeq(s, i, i + Len(sub) - 1) = sub

\* the contents that are truthy (a non-empty string), in order
RECURSIVE Truthy(_)
Truthy(xs) ==
    IF xs = <<>> THEN <<>>
    ELSE (IF xs[1] # <<>> THEN <<xs[1]>> ELSE <<>>) \o Truthy(Tail(xs))

(***************************************************************************)
(* MOVEMENT_NAMES (extract.py:49-56).                                      *)
(***************************************************************************)
MOVEMENT_NAMES ==
    {
      <<"a","l","l","e","m","a","n","d","e">>,
      <<"c","o","u","r","a","n","t","e">>,
      <<"s","a","r","a","b","a","n","d","e">>,
      <<"g","i","g","u","e">>,
      <<"m","e","n","u","e","t">>,
      <<"m","e","n","u","e","t","t","o">>,
      <<"m","i","n","u","e","t">>,
      <<"g","a","v","o","t","t","e">>,
      <<"b","o","u","r","r","e","e">>,
      <<"b","o","u","r","r","e_acute","e">>,
      <<"p","r","e","l","u","d","e">>,
      <<"f","u","g","u","e">>,
      <<"p","r","a","e","l","u","d","i","u","m">>,
      <<"f","u","g","a">>,
      <<"a","i","r">>,
      <<"t","r","i","o">>,
      <<"r","o","n","d","o">>,
      <<"s","c","h","e","r","z","o">>,
      <<"f","i","n","a","l","e">>,
      <<"t","o","c","c","a","t","a">>,
      <<"p","a","s","s","e","p","i","e","d">>,
      <<"l","o","u","r","e">>,
      <<"a","n","g","l","a","i","s","e">>,
      <<"p","o","l","o","n","a","i","s","e">>,
      <<"b","a","d","i","n","e","r","i","e">>,
      <<"o","v","e","r","t","u","r","e">>,
      <<"o","u","v","e","r","t","u","r","e">>,
      <<"i","n","t","e","r","m","e","z","z","o">>,
      <<"s","i","c","i","l","i","a","n","o">>,
      <<"s","i","c","i","l","i","e","n","n","e">>,
      <<"p","a","s","s","a","c","a","g","l","i","a">>,
      <<"c","h","a","c","o","n","n","e">>,
      <<"f","a","n","t","a","s","i","a">>,
      <<"r","i","c","e","r","c","a","r">>,
      <<"i","n","v","e","n","t","i","o","n">>,
      <<"s","i","n","f","o","n","i","a">>
    }

\* contents of text expressions used as inputs
Allemande == <<"A","l","l","e","m","a","n","d","e">>
Courante == <<"C","o","u","r","a","n","t","e">>
Menuetto == <<"M","e","n","u","e","t","t","o">>
Dolce == <<"d","o","l","c","e">>
Fairy == <<"F","a","i","r","y">>

\* right barline of a measure: "none" is rightBarline = None
BarTypes == {"none", "regular", "final", "light-heavy"}

(***************************************************************************)
(* is_multi_movement (extract.py:198-238).  texts are the contents of the  *)
(* TextExpressions of the flattened score in order, parts[i].measures the  *)
(* right barline of each measure of part i.  scanRaises: the barline scan  *)
(* raised, which the handler at 235-236 swallows.                          *)
(***************************************************************************)
all_text(texts) ==
    LET contents == Truthy(texts)
    IN  Join([i \in 1..Len(contents) |-> Lower(contents[i])])

movement_count(texts) ==
    Cardinality({name \in MOVEMENT_NAMES : Contains(name, all_text(texts))})

InternalFinalBarline(parts) ==
    \E p \in 1..(IF Len(parts) >= 1 THEN 1 ELSE 0) :
        LET measures == parts[p].measures IN
        /\ Len(measures) > 2
        /\ \E m \in 1..(Len(measures) - 1) :
              /\ measures[m] # "none"
              /\ measures[m] \in {"final", "light-heavy"}

\* the flattened stream as far as the tempo analyzer and is_multi_movement
\* read it: the text expressions, then the metronome marks
FlatElements(s) ==
    [i \in 1..Len(s.texts) |-> [cls |-> "TextExpression", content |-> s.texts[i]]]
    \o [i \in 1..Len(s.tempos) |-> [cls |-> "MetronomeMark", content |-> s.tempos[i].text]]

getElementsByClass(flat, cls) == SelectSeq(flat, LAMBDA e : e.cls = cls)

\* a selection that takes the text of every element, tempo marks included
text_exprs_any_class(s) ==
    [i \in 1..Len(FlatElements(s)) |-> FlatElements(s)[i].content]

\* text_exprs = list(flat.getElementsByClass(expressions.TextExpression)),
\* as the sequence of their contents
text_exprs(s) ==
    LET found == getElementsByClass(FlatElements(s), "TextExpression")
    IN  [i \in 1..Len(found) |-> found[i].content]

\* a predicate that asks for three movement names
is_multi_movement_three(texts, parts, scanRaises) ==
    IF movement_count(texts) >= 3 THEN TRUE
    ELSE IF ~scanRaises /\ InternalFinalBarline(parts) THEN TRUE
    ELSE FALSE

is_multi_movement(texts, parts, scanRaises) ==
    IF movement_count(texts) >= 2 THEN TRUE
    ELSE IF ~scanRaises /\ InternalFinalBarline(parts) THEN TRUE
    ELSE FALSE

(***************************************************************************)
(* ScoreCache (extract.py:74-123).  A field holds None, False or the       *)
(* object a computation returned; the n-th execution of a computation      *)
(* returns the object <<kind, n>>, so two executions never return the      *)
(* identical object.  Each accessor yields the new fields, the new         *)
(* execution counts, whether it raised, and the value it returned.         *)
(* What flatten, chordify and analyze("key") do on a given score is a      *)
(* property of the score: score.flattenOk, score.chordifyOk, score.keyOk.  *)
(***************************************************************************)
None == <<"None">>
False == <<"False">>

\* ScoreCache.__init__
NewCache == [flat |-> None, flat_notes |-> None, chordified |-> None, analyzed_key |-> None]

NoRuns ==
    [flatten |-> 0, notes |-> 0, chordify |-> 0, analyze |-> 0, solve |-> 0,
     parse |-> 0]

Bump(r, f) == [r EXCEPT ![f] = @ + 1]

\* ScoreCache.flat
CacheFlat(s, c, r) ==
    IF c.flat = None
    THEN IF s.flattenOk
         THEN [cache |-> [c EXCEPT !.flat = <<"flat", r.flatten + 1>>],
               runs |-> Bump(r, "flatten"), raised |-> FALSE,
               value |-> <<"flat", r.flatten + 1>>]
         ELSE [cache |-> c, runs |-> Bump(r, "flatten"), raised |-> TRUE, value |-> None]
    ELSE [cache |-> c, runs |-> r, raised |-> FALSE, value |-> c.flat]

\* ScoreCache.notes
CacheNotes(s, c, r) ==
    IF c.flat_notes = None
    THEN LET f == CacheFlat(s, c, r) IN
         IF f.raised THEN f
         ELSE [cache |-> [f.cache EXCEPT !.flat_notes = <<"notes", f.runs.notes + 1>>],
               runs |-> Bump(f.runs, "notes"), raised |-> FALSE,
               value |-> <<"notes", f.runs.notes + 1>>]
    ELSE [cache |-> c, runs |-> r, raised |-> FALSE, value |-> c.flat_notes]

\* a chordified accessor that forgets to test the memo
CacheChordifiedUnmemoized(s, c, r) ==
    IF s.chordifyOk
    THEN [cache |-> [c EXCEPT !.chordified = <<"chordified", r.chordify + 1>>],
          runs |-> Bump(r, "chordify"), raised |-> FALSE,
          value |-> <<"chordified", r.chordify + 1>>]
    ELSE [cache |-> c, runs |-> Bump(r, "chordify"), raised |-> TRUE, value |-> None]

\* ScoreCache.chordified
CacheChordified(s, c, r) ==
    IF c.chordified = None
    THEN IF s.chordifyOk
         THEN [cache |-> [c EXCEPT !.chordified = <<"chordified", r.chordify + 1>>],
               runs |-> Bump(r, "chordify"), raised |-> FALSE,
               value |-> <<"chordified", r.chordify + 1>>]
         ELSE [cache |-> c, runs |-> Bump(r, "chordify"), raised |-> TRUE, value |-> None]
    ELSE [cache |-> c, runs |-> r, raised |-> FALSE, value |-> c.chordified]

\* score.analyze("key"): the key object of this execution, or an exception
AnalyzeKey(s, r) ==
    [runs |-> Bump(r, "analyze"), raised |-> ~s.keyOk,
     value |-> IF s.keyOk THEN <<"key", r.analyze + 1>> ELSE None]

\* an analyzed_key that records a failed analysis as None, like "not computed"
CacheAnalyzedKeySentinel(s, c, r) ==
    LET a == AnalyzeKey(s, r)
        stored == IF c.analyzed_key = None
                  THEN IF a.raised THEN None ELSE a.value
                  ELSE c.analyzed_key
    IN  [cache |-> [c EXCEPT !.analyzed_key = stored],
         runs |-> IF c.analyzed_key = None THEN a.runs ELSE r,
         raised |-> FALSE,
         value |-> stored]

\* ScoreCache.analyzed_key
CacheAnalyzedKey(s, c, r) ==
    LET a == AnalyzeKey(s, r)
        stored == IF c.analyzed_key = None
                  THEN IF a.raised THEN False ELSE a.value
                  ELSE c.analyzed_key
    IN  [cache |-> [c EXCEPT !.analyzed_key = stored],
         runs |-> IF c.analyzed_key = None THEN a.runs ELSE r,
         raised |-> FALSE,
         value |-> IF stored # False THEN stored ELSE None]

(***************************************************************************)
(* The result dict: a function from keys to values.                        *)
(***************************************************************************)
Put(d, k, v) == [x \in DOMAIN d \cup {k} |-> IF x = k THEN v ELSE d[x]]

Get(d, k, default) == IF k \in DOMAIN d THEN d[k] ELSE default

\* a pop that leaves the key in place
PopNothing(d, k) == d

Pop(d, k) == [x \in DOMAIN d \ {k} |-> d[x]]

(***************************************************************************)
(* An analyzer is the sequence of its statements that matter to the        *)
(* record: a write of a key, a computation that may raise ("may", named by *)
(* the place), or a use of the cache or of the key finder.  blk is the try *)
(* block the statement stands in: "outer" is the analyzer's own            *)
(* try/except, any other name an inner try whose handler is `pass`.        *)
(***************************************************************************)
Write(k, v) == [op |-> "write", at |-> k, val |-> v, blk |-> "outer"]

May(p) == [op |-> "may", at |-> p, val |-> None, blk |-> "outer"]

Use(what) == [op |-> what, at |-> what, val |-> None, blk |-> "outer"]

Inner(b, steps) == [i \in 1..Len(steps) |-> [steps[i] EXCEPT !.blk = b]]

When(cond, steps) == IF cond THEN steps ELSE <<>>

\* the statements that follow the inner try block b
RECURSIVE AfterBlock(_, _)
AfterBlock(steps, b) ==
    IF steps # <<>> /\ steps[1].blk = b THEN AfterBlock(Tail(steps), b) ELSE steps

\* the except clause at the analyzer boundary: result["_warnings"].append(f"{name}: {e}")
OnBoundaryReraise(name, st, msg) == [st EXCEPT !.escaped = TRUE]

\* a handler that swallows the exception and records nothing
OnBoundarySilent(name, st, msg) == st

OnBoundary(name, st, msg) ==
    [st EXCEPT !.result = Put(@, "_warnings", Append(@["_warnings"], <<name, msg>>))]

\* one statement: the state after it, and whether it raised
StepOut(s, step, st, f) ==
    CASE step.op = "write" ->
            [st |-> [st EXCEPT !.result = Put(@, step.at, step.val)], raised |-> FALSE]
      [] step.op = "may" -> [st |-> st, raised |-> step.at \in f]
      [] step.op = "flat" ->
            LET o == CacheFlat(s, st.cache, st.runs)
            IN  [st |-> [st EXCEPT !.cache = o.cache, !.runs = o.runs], raised |-> o.raised]
      [] step.op = "notes" ->
            LET o == CacheNotes(s, st.cache, st.runs)
            IN  [st |-> [st EXCEPT !.cache = o.cache, !.runs = o.runs], raised |-> o.raised]
      [] step.op = "chordified" ->
            LET o == CacheChordified(s, st.cache, st.runs)
            IN  [st |-> [st EXCEPT !.cache = o.cache, !.runs = o.runs], raised |-> o.raised]
      [] step.op = "analyze" ->
            LET o == AnalyzeKey(s, st.runs)
            IN  [st |-> [st EXCEPT !.runs = o.runs], raised |-> o.raised]
      [] step.op = "solve" ->
            [st |-> [st EXCEPT !.runs = Bump(@, "solve")], raised |-> ~s.keyOk]

\* the analyzer's statements in order, under its try/except structure
RECURSIVE Exec(_, _, _, _, _)
Exec(name, s, steps, st, f) ==
    IF steps = <<>> THEN st
    ELSE LET step == Head(steps)
             o == StepOut(s, step, st, f)
             logged == [o.st EXCEPT !.failures =
                           Append(@, [name |-> name, op |-> step.op, at |-> step.at,
                                      blk |-> step.blk])]
         IN  IF ~o.raised THEN Exec(name, s, Tail(steps), o.st, f)
             ELSE IF step.blk = "outer" THEN OnBoundary(name, logged, step.at)
             ELSE Exec(name, s, AfterBlock(Tail(steps), step.blk), logged, f)

(***************************************************************************)
(* The analyzers (extract.py:159-1056), each as its statements on score s  *)
(* with the record res as it stands when the analyzer is entered and f the *)
(* places of this analyzer that raise on this run.  V stands for a value   *)
(* the model does not compute.  Of a score the analyzers read: texts,      *)
(* parts, tempos (number, referent in 1/1000 quarter, text), tempo_texts,  *)
(* total_ql (in 1/100 quarter), notes, chords (simultaneities of the       *)
(* chordified score), max_span, key_changes, lyrics, dynamics, families.   *)
(***************************************************************************)
V == <<"value">>

\* an int where None may stand
Some(n) == <<"int", n>>

\* round(n / d) to the nearest integer, ties to even
RoundDiv(n, d) ==
    LET q == n \div d
        r == n % d
    IN  IF 2 * r < d THEN q
        ELSE IF 2 * r > d THEN q + 1
        ELSE IF q % 2 = 0 THEN q ELSE q + 1

\* a duration that takes every beat for a quarter note
DurationTenthsQuarter(total_ql, bpm, referent) == RoundDiv(total_ql * 6000, bpm * 1000)

\* duration_seconds in 1/10 s: round((total_ql / (bpm * referent)) * 60, 1),
\* total_ql in 1/100 quarter notes and referent in 1/1000, as safe_round keeps them
DurationTenths(total_ql, bpm, referent) == RoundDiv(total_ql * 6000, bpm * referent)

HaveKey(res) == Get(res, "_analyzed_key", None) # None

\* analyzed_key = result.get("_analyzed_key") or score.analyze("key")
KeyOrAnalyze(res) == When(~HaveKey(res), <<Use("analyze")>>)

extract_pitch_range(s, res, f) ==
    <<Use("flat"), May("pitch_range.pitches")>>
    \o When(s.notes > 0,
            <<Write("lowest_pitch", V), Write("highest_pitch", V),
              Write("ambitus_semitones", V), Write("unique_pitches", V),
              May("pitch_range.per_part"),
              Write("pitch_range_per_part", V), Write("voice_ranges", V)>>)

\* what is extracted whatever the movement status (extract.py:268-283)
tempo_always(s, f) ==
    <<Use("flat"), May("tempo_duration.measures")>>
    \o When(s.parts # <<>>,
            <<Write("measure_count",
                    IF s.parts[1].measures # <<>>
                    THEN Some(Len(s.parts[1].measures)) ELSE None)>>)
    \o <<May("tempo_duration.total_ql")>>
    \o When(s.total_ql # 0, <<Write("total_quarter_length", s.total_ql)>>)
    \o <<Use("flat"), May("multi_movement.texts")>>
    \o When(movement_count(text_exprs(s)) < 2,
            Inner("multi_movement.barlines", <<May("multi_movement.barlines")>>))
    \o <<Write("is_multi_movement",
               is_multi_movement(text_exprs(s), s.parts, "multi_movement.barlines" \in f))>>

\* tempo and duration of a single movement (extract.py:290-320)
tempo_single_movement(s) ==
    LET hasTempo == s.tempos # <<>>
        bpm == IF hasTempo THEN s.tempos[1].number ELSE 0
        referent == IF hasTempo THEN s.tempos[1].referent ELSE 0
        markText == IF hasTempo THEN s.tempos[1].text ELSE ""
    IN  <<May("tempo_duration.tempo")>>
        \o When(hasTempo,
                <<Write("tempo_bpm", IF bpm # 0 THEN Some(bpm) ELSE None)>>
                \o When(referent # 0, <<Write("tempo_referent", referent)>>)
                \o When(markText # "", <<Write("tempo_marking", markText)>>))
        \o When(markText = "" /\ s.tempo_texts # <<>>,
                <<Write("tempo_marking", s.tempo_texts[1])>>)
        \o <<May("tempo_duration.duration")>>
        \o When(bpm > 0 /\ s.total_ql > 0,
                <<Write("duration_seconds",
                        DurationTenths(s.total_ql, bpm,
                                       IF referent > 0 THEN referent ELSE 1000))>>)

\* the variant without the multi-movement gate
extract_tempo_duration_ungated(s, res, f) ==
    tempo_always(s, f) \o tempo_single_movement(s)

extract_tempo_duration(s, res, f) ==
    tempo_always(s, f)
    \o When(~is_multi_movement(text_exprs(s), s.parts, "multi_movement.barlines" \in f),
            tempo_single_movement(s))

extract_complexity(s, res, f) ==
    <<Use("notes"), Write("event_count", s.notes), May("complexity.count"),
      Write("pitch_count", s.notes), Write("accidental_count", V)>>

extract_rhythm(s, res, f) ==
    <<Use("notes"), May("rhythm.durations")>>
    \o When(s.notes > 0,
            <<Write("rhythm_distribution", V), Write("predominant_rhythm", V),
              Write("unique_duration_count", V)>>)
    \o <<May("rhythm.off_beat"), Write("off_beat_count", V)>>

extract_harmony(s, res, f) ==
    KeyOrAnalyze(res)
    \o <<May("harmony.key"), Write("key_signature", V), Write("key_confidence", V)>>
    \o Inner("harmony.correlations",
             <<Use("solve"), May("harmony.correlations"), Write("key_correlations", V)>>)
    \o When(s.parts # <<>>,
            <<May("harmony.windows")>>
            \o Inner("harmony.chunk_key",
                     <<May("harmony.chunk_key")>>
                     \o When(s.key_changes > 0,
                             <<Write("modulations", V),
                               Write("modulation_count", s.key_changes),
                               Write("modulation_targets", V)>>)))
    \o Inner("harmony.chord_count",
             <<Use("chordified"), May("harmony.chord_count"),
               Write("chord_count", s.chords)>>)

extract_melody(s, res, f) ==
    When(s.parts # <<>>,
         <<May("melody.notes")>>
         \o When(s.notes >= 2,
                 Inner("melody.interval",
                       <<May("melody.interval"),
                         Write("interval_distribution", V), Write("interval_count", V),
                         Write("largest_interval", V), Write("stepwise_count", V)>>)))

extract_structure(s, res, f) ==
    <<Use("flat"), May("structure.time_sig")>>
    \o When(s.notes > 0, <<Write("time_signature", V)>>)
    \o <<Write("repeats_count", V), May("structure.sections")>>
    \o When(\E p \in 1..Len(s.parts) : \E m \in 1..Len(s.parts[p].measures) :
                s.parts[p].measures[m] = "double",
            <<Write("sections_count", V)>>)
    \o Inner("structure.cadence",
             <<Use("chordified"), May("structure.final_chords")>>
             \o When(s.chords >= 2,
                     KeyOrAnalyze(res)
                     \o <<May("structure.roman"), Write("final_cadence", V)>>))

extract_notation(s, res, f) ==
    <<Use("flat"), May("notation.clefs")>>
    \o When(s.notes > 0, <<Write("clefs_used", V)>>)
    \o <<Write("has_dynamics", s.dynamics)>>
    \o When(s.dynamics, <<Write("dynamic_range", V)>>)
    \o <<May("notation.articulations"),
         Write("has_articulations", V), Write("has_ornaments", V),
         Write("has_fermatas", V),
         Write("has_tempo_changes", Len(s.tempos) + Len(s.tempo_texts) > 1)>>
    \o When(Truthy(s.texts) # <<>>, <<Write("expression_markings", V)>>)

\* the handler of the inner try (extract.py:622-630) guesses the language from
\* a few words; the model's lyrics hold none of them
extract_lyrics(s, res, f) ==
    <<May("lyrics.collect")>>
    \o When(s.lyrics,
            <<Write("has_extracted_lyrics", TRUE), Write("extracted_lyrics", V),
              Write("syllable_count", V)>>
            \o Inner("lyrics.language",
                     <<May("lyrics.detect"), Write("lyrics_language", V)>>))
    \o When(~s.lyrics, <<Write("has_extracted_lyrics", FALSE)>>)

extract_instrumentation(s, res, f) ==
    <<Write("num_parts", Len(s.parts)), May("instrumentation.parts"),
      Write("part_names", V)>>
    \o When(s.parts # <<>>, <<Write("detected_instruments", V)>>)
    \o When(s.families, <<Write("instrument_families", V)>>)

extract_texture(s, res, f) ==
    When(s.parts # <<>>,
         <<Use("chordified"), May("texture.loop")>>
         \o When(s.chords > 0, <<Write("simultaneous_note_avg", V)>>)
         \o When(s.chords > 1, <<Write("texture_variation", V)>>)
         \o When(s.max_span > 0, <<Write("avg_chord_span", V)>>)
         \o When(s.max_span > 0 /\ s.chords > 1,
                 <<Write("contrary_motion_ratio", V), Write("parallel_motion_ratio", V),
                   Write("oblique_motion_ratio", V)>>)
         \o When(s.max_span > 0, <<Write("unique_chord_count", V)>>))

extract_hand_span(s, res, f) ==
    When(Len(s.parts) <= 2,
         <<May("hand_span.loop")>>
         \o When(s.max_span > 0, <<Write("max_chord_span", s.max_span)>>))

extract_tessitura(s, res, f) ==
    <<May("tessitura.parts")>> \o When(s.notes > 0, <<Write("tessitura", V)>>)

extract_melodic_leaps(s, res, f) ==
    <<May("melodic_leaps.count"), Write("leap_count", V)>>

extract_chromatic_notes(s, res, f) ==
    KeyOrAnalyze(res)
    \o <<May("chromatic_notes.scale"), Use("notes"), May("chromatic_notes.count"),
         Write("chromatic_note_count", V)>>
    \o When(Get(res, "pitch_count", 0) > 0, <<Write("chromatic_ratio", V)>>)

extract_pitch_class_distribution(s, res, f) ==
    <<Use("notes"), May("pitch_class_distribution.count")>>
    \o When(s.notes > 0, <<Write("pitch_class_distribution", V)>>)

extract_meter_info(s, res, f) ==
    <<Use("flat"), May("meter_info.time_sigs")>>
    \o When(s.notes > 0,
            <<Write("beat_count", V), May("meter_info.classification"),
              Write("meter_classification", V)>>)

extract_spanners(s, res, f) ==
    <<Use("flat"), May("spanners.slurs"), Write("slur_count", V),
      May("spanners.ottava"), Write("has_ottava", V)>>

extract_ornament_counts(s, res, f) ==
    <<Use("flat"), May("ornament_counts.trills"), Write("trill_count", V),
      Write("mordent_count", V), May("ornament_counts.turns"), Write("turn_count", V),
      Write("tremolo_count", V), Write("arpeggio_mark_count", V)>>

extract_grace_notes(s, res, f) ==
    <<Use("notes"), May("grace_notes.count"), Write("grace_note_count", V)>>

extract_pedal_marks(s, res, f) ==
    <<Use("flat"), May("pedal_marks.pedals"), Write("has_pedal_marks", V)>>

(***************************************************************************)
(* extract (extract.py:1067-1140).                                         *)
(***************************************************************************)
\* the analyzers in the order extract calls them (1101-1125), each under the
\* name its handler uses in the warning
ANALYZERS ==
    <<"pitch_range", "tempo_duration", "complexity", "rhythm",
      "harmony", "melody", "structure", "notation",
      "lyrics", "instrumentation", "texture", "hand_span",
      "tessitura", "melodic_leaps", "chromatic_notes", "pitch_class_distribution",
      "meter_info", "spanners", "ornament_counts", "grace_notes",
      "pedal_marks">>

\* the places of each analyzer where the model lets an exception be raised
PointsOf ==
    [pitch_range |-> {"pitch_range.pitches", "pitch_range.per_part"},
     tempo_duration |-> {"tempo_duration.measures", "tempo_duration.total_ql",
                        "multi_movement.texts", "multi_movement.barlines", "tempo_duration.tempo", "tempo_duration.duration"},
     complexity |-> {"complexity.count"},
     rhythm |-> {"rhythm.durations", "rhythm.off_beat"},
     harmony |-> {"harmony.key", "harmony.correlations",
                 "harmony.windows", "harmony.chunk_key", "harmony.chord_count"},
     melody |-> {"melody.notes", "melody.interval"},
     structure |-> {"structure.time_sig", "structure.sections",
                   "structure.final_chords", "structure.roman"},
     notation |-> {"notation.clefs", "notation.articulations"},
     lyrics |-> {"lyrics.collect", "lyrics.detect"},
     instrumentation |-> {"instrumentation.parts"},
     texture |-> {"texture.loop"},
     hand_span |-> {"hand_span.loop"},
     tessitura |-> {"tessitura.parts"},
     melodic_leaps |-> {"melodic_leaps.count"},
     chromatic_notes |-> {"chromatic_notes.scale", "chromatic_notes.count"},
     pitch_class_distribution |-> {"pitch_class_distribution.count"},
     meter_info |-> {"meter_info.time_sigs", "meter_info.classification"},
     spanners |-> {"spanners.slurs", "spanners.ottava"},
     ornament_counts |-> {"ornament_counts.trills", "ornament_counts.turns"},
     grace_notes |-> {"grace_notes.count"},
     pedal_marks |-> {"pedal_marks.pedals"}]

Body(name, s, res, f) ==
    CASE name = "pitch_range" -> extract_pitch_range(s, res, f)
      [] name = "tempo_duration" -> extract_tempo_duration(s, res, f)
      [] name = "complexity" -> extract_complexity(s, res, f)
      [] name = "rhythm" -> extract_rhythm(s, res, f)
      [] name = "harmony" -> extract_harmony(s, res, f)
      [] name = "melody" -> extract_melody(s, res, f)
      [] name = "structure" -> extract_structure(s, res, f)
      [] name = "notation" -> extract_notation(s, res, f)
      [] name = "lyrics" -> extract_lyrics(s, res, f)
      [] name = "instrumentation" -> extract_instrumentation(s, res, f)
      [] name = "texture" -> extract_texture(s, res, f)
      [] name = "hand_span" -> extract_hand_span(s, res, f)
      [] name = "tessitura" -> extract_tessitura(s, res, f)
      [] name = "melodic_leaps" -> extract_melodic_leaps(s, res, f)
      [] name = "chromatic_notes" -> extract_chromatic_notes(s, res, f)
      [] name = "pitch_class_distribution" -> extract_pitch_class_distribution(s, res, f)
      [] name = "meter_info" -> extract_meter_info(s, res, f)
      [] name = "spanners" -> extract_spanners(s, res, f)
      [] name = "ornament_counts" -> extract_ornament_counts(s, res, f)
      [] name = "grace_notes" -> extract_grace_notes(s, res, f)
      [] name = "pedal_marks" -> extract_pedal_marks(s, res, f)

\* the keys each analyzer writes: its feature group
GroupKeys ==
    [pitch_range |->
        {"lowest_pitch", "highest_pitch", "ambitus_semitones",
         "unique_pitches", "pitch_range_per_part", "voice_ranges"},
     tempo_duration |->
        {"measure_count", "total_quarter_length", "is_multi_movement",
         "tempo_bpm", "tempo_referent", "tempo_marking",
         "duration_seconds"},
     complexity |->
        {"event_count", "pitch_count", "accidental_count"},
     rhythm |->
        {"rhythm_distribution", "predominant_rhythm",
         "unique_duration_count", "off_beat_count"},
     harmony |->
        {"key_signature", "key_confidence", "key_correlations",
         "modulations", "modulation_count", "modulation_targets",
         "chord_count"},
     melody |->
        {"interval_distribution", "interval_count",
         "largest_interval", "stepwise_count"},
     structure |->
        {"time_signature", "repeats_count", "sections_count",
         "final_cadence"},
     notation |->
        {"clefs_used", "has_dynamics", "has_articulations",
         "has_ornaments", "has_fermatas", "has_tempo_changes",
         "expression_markings", "dynamic_range"},
     lyrics |->
        {"has_extracted_lyrics", "extracted_lyrics", "syllable_count",
         "lyrics_language"},
     instrumentation |->
        {"num_parts", "part_names", "detected_instruments",
         "instrument_families"},
     texture |->
        {"simultaneous_note_avg", "texture_variation",
         "avg_chord_span", "contrary_motion_ratio",
         "parallel_motion_ratio", "oblique_motion_ratio",
         "unique_chord_count"},
     hand_span |->
        {"max_chord_span"},
     tessitura |->
        {"tessitura"},
     melodic_leaps |->
        {"leap_count"},
     chromatic_notes |->
        {"chromatic_note_count", "chromatic_ratio"},
     pitch_class_distribution |->
        {"pitch_class_distribution"},
     meter_info |->
        {"beat_count", "meter_classification"},
     spanners |->
        {"slur_count", "has_ottava"},
     ornament_counts |->
        {"trill_count", "mordent_count", "turn_count",
         "tremolo_count", "arpeggio_mark_count"},
     grace_notes |->
        {"grace_note_count"},
     pedal_marks |->
        {"has_pedal_marks"}]

\* the exceptions raised so far at a "may" place
Injected(log) == Cardinality({i \in 1..Len(log) : log[i].op = "may"})

FaultChoices(name) ==
    {f \in SUBSET PointsOf[name] : Cardinality(f) + Injected(failures) <= MaxFaults}

\* result as extract creates it (1077-1083)
NewResult ==
    [k \in {"extraction_status", "extraction_error", "music21_version",
            "musicxml_source", "_warnings"} |->
        CASE k = "extraction_status" -> "pending"
          [] k = "extraction_error" -> None
          [] k = "_warnings" -> <<>>
          [] OTHER -> V]

\* a handler that sets the status and records no error
ExtractFailedNoError(res, e) == Put(res, "extraction_status", "failed")

\* a handler that records the error and leaves the status alone
ExtractFailedKeepsStatus(res, e) == Put(res, "extraction_error", <<"error", e>>)

\* extract's own handler (1129-1131)
ExtractFailed(res, e) ==
    Put(Put(res, "extraction_status", "failed"), "extraction_error", <<"error", e>>)

\* score = converter.parse(file_path): the parser is called, and raises on a
\* file it cannot read ("raises") or cannot find ("missing")
Parse ==
    /\ pc = "parse"
    /\ runs' = Bump(runs, "parse")
    /\ IF score.parse \in {"raises", "missing"}
       THEN /\ result' = ExtractFailed(result, "parse")
            /\ failures' = Append(failures, [name |-> "extract", op |-> "parse",
                                             at |-> "parse", blk |-> "extract"])
            /\ pc' = "cleanup"
       ELSE /\ pc' = "setup"
            /\ UNCHANGED <<result, failures>>
    /\ UNCHANGED <<score, cache, trace, ret>>

\* the Score wrapper, the cache and the cached key (1088-1098)
Setup ==
    /\ pc = "setup"
    /\ IF score.parse = "unwrappable"
       THEN /\ result' = ExtractFailed(result, "wrap")
            /\ failures' = Append(failures, [name |-> "extract", op |-> "wrap",
                                             at |-> "wrap", blk |-> "extract"])
            /\ pc' = "cleanup"
            /\ UNCHANGED <<cache, runs>>
       ELSE LET k == CacheAnalyzedKey(score, NewCache, runs) IN
            /\ cache' = k.cache
            /\ runs' = k.runs
            /\ result' = Put(Put(result, "_analyzed_key", k.value), "_cache", <<"ScoreCache">>)
            /\ pc' = ANALYZERS[1]
            /\ UNCHANGED failures
    /\ UNCHANGED <<score, trace, ret>>

\* the call of the i-th analyzer
Call(i) ==
    /\ pc = ANALYZERS[i]
    /\ \E f \in FaultChoices(ANALYZERS[i]) :
          LET name == ANALYZERS[i]
              st == Exec(name, score, Body(name, score, result, f),
                         [result |-> result, cache |-> cache, runs |-> runs,
                          failures |-> failures, escaped |-> FALSE], f)
          IN  /\ result' = IF st.escaped THEN ExtractFailed(st.result, name) ELSE st.result
              /\ pc' = IF st.escaped THEN "cleanup"
                       ELSE IF i < Len(ANALYZERS) THEN ANALYZERS[i + 1] ELSE "finish"
              /\ cache' = st.cache
              /\ runs' = st.runs
              /\ failures' = st.failures
    /\ trace' = Append(trace, ANALYZERS[i])
    /\ UNCHANGED <<score, ret>>

Call_pitch_range == Call(1)

Call_tempo_duration == Call(2)

Call_complexity == Call(3)

Call_rhythm == Call(4)

Call_harmony == Call(5)

Call_melody == Call(6)

Call_structure == Call(7)

Call_notation == Call(8)

Call_lyrics == Call(9)

Call_instrumentation == Call(10)

Call_texture == Call(11)

Call_hand_span == Call(12)

Call_tessitura == Call(13)

Call_melodic_leaps == Call(14)

Call_chromatic_notes == Call(15)

Call_pitch_class_distribution == Call(16)

Call_meter_info == Call(17)

Call_spanners == Call(18)

Call_ornament_counts == Call(19)

Call_grace_notes == Call(20)

Call_pedal_marks == Call(21)

\* result["extraction_status"] = "extracted" (1127)
Finish ==
    /\ pc = "finish"
    /\ result' = Put(result, "extraction_status", "extracted")
    /\ pc' = "cleanup"
    /\ UNCHANGED <<score, cache, runs, trace, failures, ret>>

\* the internal fields are removed and the warnings published (1133-1140)
Cleanup ==
    /\ pc = "cleanup"
    /\ LET popped == Pop(Pop(Pop(result, "_analyzed_key"), "_cache"), "_warnings")
           warnings == Get(result, "_warnings", <<>>)
       IN  result' = IF warnings # <<>>
                     THEN Put(popped, "_extraction_warnings", warnings)
                     ELSE popped
    /\ pc' = "done"
    /\ UNCHANGED <<score, cache, runs, trace, failures, ret>>

(***************************************************************************)
(* The inputs of extract: what parsing does, and the parsed score.         *)
(***************************************************************************)
OneMeasure == <<[measures |-> <<"regular">>]>>

ThreeMeasures == <<[measures |-> <<"regular", "regular", "final">>]>>

TwoMovements == <<[measures |-> <<"final", "regular", "final">>]>>

Movements ==
    {[texts |-> <<>>, parts |-> OneMeasure],
     [texts |-> <<Allemande, Courante>>, parts |-> ThreeMeasures],
     [texts |-> <<Dolce>>, parts |-> TwoMovements]}

Tempi ==
    {[tempos |-> <<>>, tempo_texts |-> <<>>],
     [tempos |-> <<[number |-> 120, referent |-> 1500, text |-> "Allegro"]>>,
      tempo_texts |-> <<>>],
     [tempos |-> <<[number |-> 0, referent |-> 0, text |-> ""]>>,
      tempo_texts |-> <<"Andante">>],
     [tempos |-> <<[number |-> 70, referent |-> 0, text |-> ""]>>,
      tempo_texts |-> <<>>]}

\* no notes at all: the key finder raises on it
Silent ==
    [notes |-> 0, chords |-> 0, max_span |-> 0, total_ql |-> 0,
     keyOk |-> FALSE, chordifyOk |-> TRUE]

Music ==
    [notes |-> 8, chords |-> 8, max_span |-> 12, total_ql |-> 3000,
     keyOk |-> TRUE, chordifyOk |-> TRUE]

\* chordify raises on it
Unchordifiable == [Music EXCEPT !.chordifyOk = FALSE]

\* two simultaneities and no key: the key finder raises on it
Keyless == [Music EXCEPT !.chords = 2, !.max_span = 0, !.keyOk = FALSE]

NoText == [texts |-> <<>>, parts |-> OneMeasure]

Allegro == [tempos |-> <<[number |-> 120, referent |-> 1500, text |-> "Allegro"]>>,
            tempo_texts |-> <<>>]

MakeScore(p, m, t, c) ==
    [parse |-> p, flattenOk |-> TRUE, key_changes |-> 0, lyrics |-> FALSE,
     dynamics |-> FALSE, families |-> FALSE,
     texts |-> m.texts, parts |-> m.parts, tempos |-> t.tempos,
     tempo_texts |-> t.tempo_texts, notes |-> c.notes, chords |-> c.chords,
     max_span |-> c.max_span, total_ql |-> c.total_ql, keyOk |-> c.keyOk,
     chordifyOk |-> c.chordifyOk]

\* every movement sample with every tempo sample, as music and as a silent
\* score; the scores the libraries fail on; a parse that returns no Score;
\* the two ways the setup fails
Inputs ==
    {MakeScore("score", m, t, c) : m \in Movements, t \in Tempi, c \in {Music, Silent}}
    \cup {MakeScore("score", NoText, Allegro, c) : c \in {Unchordifiable, Keyless}}
    \cup {MakeScore(p, NoText, Allegro, Music) : p \in {"stream", "raises", "missing", "unwrappable"}}

Init ==
    /\ score \in Inputs
    /\ pc = "parse"
    /\ result = NewResult
    /\ cache = NewCache
    /\ runs = NoRuns
    /\ trace = <<>>
    /\ failures = <<>>
    /\ ret = FALSE

Next ==
    \/ Parse
    \/ Setup
    \/ Call_pitch_range
    \/ Call_tempo_duration
    \/ Call_complexity
    \/ Call_rhythm
    \/ Call_harmony
    \/ Call_melody
    \/ Call_structure
    \/ Call_notation
    \/ Call_lyrics
    \/ Call_instrumentation
    \/ Call_texture
    \/ Call_hand_span
    \/ Call_tessitura
    \/ Call_melodic_leaps
    \/ Call_chromatic_notes
    \/ Call_pitch_class_distribution
    \/ Call_meter_info
    \/ Call_spanners
    \/ Call_ornament_counts
    \/ Call_grace_notes
    \/ Call_pedal_marks
    \/ Finish
    \/ Cleanup

Spec == Init /\ [][Next]_vars

(***************************************************************************)
(* The cache on its own: any sequence of accesses to one ScoreCache.       *)
(***************************************************************************)
Access(name, out) ==
    /\ pc = "cache"
    /\ Len(trace) < MaxAccess
    /\ cache' = out.cache
    /\ runs' = out.runs
    /\ trace' = Append(trace, [acc |-> name, raised |-> out.raised, value |-> out.value])
    /\ UNCHANGED <<score, pc, result, failures, ret>>

AccessFlat == Access("flat", CacheFlat(score, cache, runs))

AccessNotes == Access("notes", CacheNotes(score, cache, runs))

AccessChordified == Access("chordified", CacheChordified(score, cache, runs))

AccessAnalyzedKey == Access("analyzed_key", CacheAnalyzedKey(score, cache, runs))

InitCache ==
    /\ score \in [flattenOk : BOOLEAN, chordifyOk : BOOLEAN, keyOk : BOOLEAN]
    /\ pc = "cache"
    /\ result = <<>>
    /\ cache = NewCache
    /\ runs = NoRuns
    /\ trace = <<>>
    /\ failures = <<>>
    /\ ret = FALSE

NextCache == AccessFlat \/ AccessNotes \/ AccessChordified \/ AccessAnalyzedKey

SpecCache == InitCache /\ [][NextCache]_vars

(***************************************************************************)
(* The multi-movement predicate on its own, called as the tests call it:   *)
(* is_multi_movement(score, {}) on scores built from titles and barlines.  *)
(***************************************************************************)
SeqsUpTo(S, n) == UNION {[1..k -> S] : k \in 0..n}

UpperChar(c) ==
    IF \E u \in DOMAIN LowerOf : LowerOf[u] = c
    THEN CHOOSE u \in DOMAIN LowerOf : LowerOf[u] = c
    ELSE c

\* a title as an engraver writes it: the first letter in upper case
Capitalize(w) == [i \in 1..Len(w) |-> IF i = 1 THEN UpperChar(w[i]) ELSE w[i]]

DictTitles == {Capitalize(n) : n \in MOVEMENT_NAMES}

OtherTitles == {Dolce, Fairy, <<>>}

SmallTitles == {Allemande, Courante, Dolce, <<>>}

MMTexts ==
    {<<t>> : t \in DictTitles \cup OtherTitles} \cup SeqsUpTo(SmallTitles, MaxTexts)

SecondPart == [measures |-> <<"final", "regular", "regular">>]

MMParts ==
    {<<>>}
    \cup {<<[measures |-> m]>> : m \in SeqsUpTo(BarTypes, MaxMeasures)}
    \cup {<<[measures |-> m], SecondPart>> : m \in SeqsUpTo(BarTypes, MaxMeasures)}

\* tempo changes within one movement, and tempo marks worded as dances
Schnell == <<"S","c","h","n","e","l","l">>
Andante == <<"A","n","d","a","n","t","e">>

MMTempos ==
    {<<>>,
     <<[number |-> 148, referent |-> 1000, text |-> Schnell],
       [number |-> 80, referent |-> 1000, text |-> Andante]>>,
     <<[number |-> 60, referent |-> 1000, text |-> Allemande],
       [number |-> 90, referent |-> 1000, text |-> Courante]>>}

InitMM ==
    /\ score \in [texts : MMTexts, parts : MMParts, tempos : MMTempos]
    /\ score.tempos # <<>> => (Len(score.texts) <= 1 /\ Len(score.parts) <= 1)
    /\ pc = "call"
    /\ result = <<>>
    /\ cache = NewCache
    /\ runs = NoRuns
    /\ trace = <<>>
    /\ failures = <<>>
    /\ ret = FALSE

CallIsMultiMovement ==
    /\ pc = "call"
    /\ ret' = is_multi_movement(text_exprs(score), score.parts, FALSE)
    /\ pc' = "returned"
    /\ UNCHANGED <<score, result, cache, runs, trace, failures>>

NextMM == CallIsMultiMovement

SpecMM == InitMM /\ [][NextMM]_vars

(***************************************************************************)
(* Two separate runs of extract on the same file, as far as                *)
(* extract_instrumentation (extract.py:638-668) goes.  A part carries its  *)
(* partName and its instrument's instrumentName and instrumentFamily, <<>> *)
(* where the attribute is None or empty.  ", ".join(set(...)) walks a set  *)
(* of strings in the order of their hashes, which Python draws anew for    *)
(* every process: each run picks one enumeration of each set.  result is   *)
(* the record of the first run, ret the record of the second.              *)
(***************************************************************************)
Violin == <<"V","i","o","l","i","n">>
Piano == <<"P","i","a","n","o">>
Flute == <<"F","l","u","t","e">>
Strings == <<"s","t","r","i","n","g","s">>
Keyboard == <<"k","e","y","b","o","a","r","d">>
Unknown == <<"U","n","k","n","o","w","n">>

PartKinds ==
    {[partName |-> Violin, instrumentName |-> Violin, instrumentFamily |-> Strings],
     [partName |-> Piano, instrumentName |-> Piano, instrumentFamily |-> Keyboard],
     [partName |-> Flute, instrumentName |-> <<>>, instrumentFamily |-> <<>>]}

\* get_part_name for parts without abbreviation and without instrument names
get_part_name(part) == IF part.partName # <<>> THEN part.partName ELSE Unknown

RECURSIVE JoinComma(_)
JoinComma(xs) ==
    IF xs = <<>> THEN <<>>
    ELSE IF Len(xs) = 1 THEN xs[1]
    ELSE xs[1] \o <<",", " ">> \o JoinComma(Tail(xs))

\* the orders in which a process may walk the set S
Iterations(S) ==
    {q \in [1..Cardinality(S) -> S] : {q[i] : i \in 1..Cardinality(S)} = S}

InstrumentNames(parts) ==
    {IF parts[i].instrumentName # <<>> THEN parts[i].instrumentName
     ELSE get_part_name(parts[i]) : i \in 1..Len(parts)}

InstrumentFamilies(parts) ==
    {parts[i].instrumentFamily : i \in 1..Len(parts)} \ {<<>>}

\* the keys extract_instrumentation writes when the sets are walked in the
\* orders names and families
instrumentation(parts, names, families) ==
    LET base == Put(Put(<<>>, "num_parts", Len(parts)), "part_names",
                    JoinComma([i \in 1..Len(parts) |-> get_part_name(parts[i])]))
        withInst == IF names # <<>>
                    THEN Put(base, "detected_instruments", JoinComma(names))
                    ELSE base
    IN  IF families # <<>>
        THEN Put(withInst, "instrument_families", JoinComma(families))
        ELSE withInst

InitTwice ==
    /\ score \in [parts : SeqsUpTo(PartKinds, MaxParts)]
    /\ pc = "first"
    /\ result = <<>>
    /\ cache = NewCache
    /\ runs = NoRuns
    /\ trace = <<>>
    /\ failures = <<>>
    /\ ret = <<>>

FirstRun ==
    /\ pc = "first"
    /\ \E names \in Iterations(InstrumentNames(score.parts)) :
       \E families \in Iterations(InstrumentFamilies(score.parts)) :
          result' = instrumentation(score.parts, names, families)
    /\ pc' = "second"
    /\ UNCHANGED <<score, cache, runs, trace, failures, ret>>

SecondRun ==
    /\ pc = "second"
    /\ \E names \in Iterations(InstrumentNames(score.parts)) :
       \E families \in Iterations(InstrumentFamilies(score.parts)) :
          ret' = instrumentation(score.parts, names, families)
    /\ pc' = "compared"
    /\ UNCHANGED <<score, cache, runs, trace, failures, result>>

NextTwice == FirstRun \/ SecondRun

SpecTwice == InitTwice /\ [][NextTwice]_vars

(***************************************************************************)
(* extract_batch (extract.py:1167-1212) and _extract_one (1147-1164).      *)
(* score holds the call: the paths, the workers argument and the machine's *)
(* cpu_count.  cache holds the pool: the indices of the tasks handed to    *)
(* workers and the results they have sent back; result holds stats; trace  *)
(* the lines written to output_file, as records; ret the returned stats.   *)
(* runs.parse counts the calls of extract.                                 *)
(***************************************************************************)
\* the files behind the path names: a score, a file the parser rejects,
\* no file
Files == [good |-> "score", bad |-> "raises", gone |-> "missing"]

PathNames == DOMAIN Files

\* the status and error fields of the record extract returns for a file
extract_summary(path) ==
    IF Files[path] = "score"
    THEN [extraction_status |-> "extracted", extraction_error |-> None]
    ELSE [extraction_status |-> "failed", extraction_error |-> <<"error", "parse">>]

\* result = {"file_path": path}, then the existence check or result.update(extract(path))
extract_one(path) ==
    IF Files[path] = "missing"
    THEN [file_path |-> path, extraction_status |-> "failed",
          extraction_error |-> <<"error", "File not found">>]
    ELSE [file_path |-> path] @@ extract_summary(path)

\* workers after "if workers == 0: workers = cpu_count()"
EffectiveWorkers(call) == IF call.workers = 0 THEN call.cpu_count ELSE call.workers

\* process_result (1191-1201): count the record and write its line
process_result(st, rec) ==
    LET ok == rec.extraction_status = "extracted"
        field == IF ok THEN "extracted" ELSE "failed"
    IN  [stats |-> [st.stats EXCEPT ![field] = @ + 1],
         lines |-> Append(st.lines, rec)]

\* results handed over in the order they were sent back
NextInAnyOrder(finished, written) == DOMAIN finished \ written

\* pool.imap yields results in the order of paths: the next one is that of
\* the first path not yet processed, once a worker has sent it back
NextInOrder(finished, written) ==
    {i \in DOMAIN finished : i = Cardinality(written) + 1}

InitBatch ==
    /\ score \in [paths : SeqsUpTo(PathNames, MaxPaths),
                  workers : 0..MaxWorkers, cpu_count : {1, 2}]
    /\ pc = "start"
    /\ result = [total |-> 0, extracted |-> 0, failed |-> 0]
    /\ cache = [started |-> {}, finished |-> <<>>, written |-> {}]
    /\ runs = NoRuns
    /\ trace = <<>>
    /\ failures = <<>>
    /\ ret = None

\* total = len(paths); stats = {...}; the choice of the loop
BatchStart ==
    /\ pc = "start"
    /\ result' = [total |-> Len(score.paths), extracted |-> 0, failed |-> 0]
    /\ pc' = IF EffectiveWorkers(score) > 1 THEN "pool" ELSE "loop"
    /\ UNCHANGED <<score, cache, runs, trace, failures, ret>>

\* for i, path in enumerate(paths): process_result(i, _extract_one(path))
SequentialStep ==
    /\ pc = "loop"
    /\ Len(trace) < Len(score.paths)
    /\ LET path == score.paths[Len(trace) + 1]
           st == process_result([stats |-> result, lines |-> trace], extract_one(path))
       IN  /\ result' = st.stats
           /\ trace' = st.lines
           /\ runs' = IF Files[path] # "missing" THEN Bump(runs, "parse") ELSE runs
    /\ UNCHANGED <<score, pc, cache, failures, ret>>

\* a free worker takes the next task of the pool
WorkerTakes ==
    /\ pc = "pool"
    /\ Cardinality(cache.started) < Len(score.paths)
    /\ Cardinality(cache.started \ DOMAIN cache.finished) < EffectiveWorkers(score)
    /\ cache' = [cache EXCEPT !.started = @ \cup {Cardinality(@) + 1}]
    /\ UNCHANGED <<score, pc, result, runs, trace, failures, ret>>

\* a worker finishes _extract_one on its path and sends the record back
WorkerFinishes ==
    /\ pc = "pool"
    /\ \E i \in cache.started \ DOMAIN cache.finished :
          /\ cache' = [cache EXCEPT !.finished =
                           [j \in DOMAIN @ \cup {i} |->
                               IF j = i THEN extract_one(score.paths[i]) ELSE @[j]]]
          /\ runs' = IF Files[score.paths[i]] # "missing"
                     THEN Bump(runs, "parse") ELSE runs
    /\ UNCHANGED <<score, pc, result, trace, failures, ret>>

\* for i, result in enumerate(pool.imap(_extract_one, paths)): process_result(i, result)
ParallelStep ==
    /\ pc = "pool"
    /\ \E i \in NextInOrder(cache.finished, cache.written) :
          LET st == process_result([stats |-> result, lines |-> trace], cache.finished[i])
          IN  /\ result' = st.stats
              /\ trace' = st.lines
              /\ cache' = [cache EXCEPT !.written = @ \cup {i}]
    /\ UNCHANGED <<score, pc, runs, failures, ret>>

\* return stats
BatchReturn ==
    /\ pc \in {"loop", "pool"}
    /\ Len(trace) = Len(score.paths)
    /\ ret' = result
    /\ pc' = "returned"
    /\ UNCHANGED <<score, result, cache, runs, trace, failures>>

NextBatch ==
    \/ BatchStart
    \/ SequentialStep
    \/ WorkerTakes
    \/ WorkerFinishes
    \/ ParallelStep
    \/ BatchReturn

SpecBatch == InitBatch /\ [][NextBatch]_vars

(***************************************************************************)
(* extract_texture by value (extract.py:671-776).  score.chord_stream is   *)
(* the sequence of Chord objects of the chordified score, each the         *)
(* sequence of its pitches as pitch-space numbers (semitones, 60 = C4).    *)
(* The locals of the pass are kept in a record; result holds the keys the  *)
(* analyzer writes, ret the locals after the loop.  Ratios are kept in     *)
(* 1/1000, averages in 1/100, as safe_round leaves them.                   *)
(***************************************************************************)
RECURSIVE Insert(_, _)
Insert(x, sorted) ==
    IF sorted = <<>> THEN <<x>>
    ELSE IF x < sorted[1] THEN <<x>> \o sorted
    ELSE <<sorted[1]>> \o Insert(x, Tail(sorted))

\* sorted(c.pitches, key=lambda p: p.ps)
RECURSIVE SortedPitches(_)
SortedPitches(c) ==
    IF c = <<>> THEN <<>>
    ELSE Insert(c[Len(c)], SortedPitches(SubSeq(c, 1, Len(c) - 1)))

pitchClass(ps) == ps % 12

RECURSIVE Sum(_)
Sum(xs) == IF xs = <<>> THEN 0 ELSE xs[1] + Sum(Tail(xs))

TextureLocals ==
    [note_counts |-> <<>>, chord_spans |-> <<>>, unique_chords |-> {},
     prev |-> None, contrary_count |-> 0, parallel_count |-> 0,
     oblique_count |-> 0, total_transitions |-> 0]

\* a count that takes every pair of consecutive chords for a transition
transition_any(acc, bass, soprano) ==
    LET bass_motion == bass - acc.prev[1]
        soprano_motion == soprano - acc.prev[2]
        counted == [acc EXCEPT !.total_transitions = @ + 1]
    IN  IF bass_motion # 0 /\ soprano_motion # 0
        THEN IF (bass_motion > 0) # (soprano_motion > 0)
             THEN [counted EXCEPT !.contrary_count = @ + 1]
             ELSE [counted EXCEPT !.parallel_count = @ + 1]
        ELSE IF bass_motion # 0 \/ soprano_motion # 0
        THEN [counted EXCEPT !.oblique_count = @ + 1]
        ELSE counted

\* the outer-voice motion from the previous chord (extract.py:726-742)
transition(acc, bass, soprano) ==
    LET bass_motion == bass - acc.prev[1]
        soprano_motion == soprano - acc.prev[2]
        counted == [acc EXCEPT !.total_transitions = @ + 1]
    IN  IF bass_motion # 0 \/ soprano_motion # 0
        THEN IF bass_motion # 0 /\ soprano_motion # 0
             THEN IF (bass_motion > 0) # (soprano_motion > 0)
                  THEN [counted EXCEPT !.contrary_count = @ + 1]
                  ELSE [counted EXCEPT !.parallel_count = @ + 1]
             ELSE [counted EXCEPT !.oblique_count = @ + 1]
        ELSE acc

\* a chord identity that keeps the octave of every pitch
chord_identity_pitches(pitches) == {pitches[i] : i \in 1..Len(pitches)}

\* pc_set = frozenset(p.pitchClass for p in pitches)
chord_identity(pitches) == {pitchClass(pitches[i]) : i \in 1..Len(pitches)}

\* a pass that carries the outer voices across a single note
after_single_note_keep(acc) == acc

\* prev_bass = None; prev_soprano = None (extract.py:746-750)
after_single_note(acc) == [acc EXCEPT !.prev = None]

\* one turn of the loop over chord_stream (extract.py:702-750)
texture_step(acc, c) ==
    LET pitches == SortedPitches(c) IN
    IF pitches = <<>> THEN acc
    ELSE
      LET pc_set == chord_identity(pitches)
          a1 == [acc EXCEPT !.note_counts = Append(@, Len(pitches)),
                            !.unique_chords =
                                IF 3 <= Cardinality(pc_set) /\ Cardinality(pc_set) <= 4
                                THEN @ \cup {pc_set} ELSE @]
      IN  IF Len(pitches) >= 2
          THEN LET bass == pitches[1]
                   soprano == pitches[Len(pitches)]
                   a2 == [a1 EXCEPT !.chord_spans = Append(@, soprano - bass)]
                   a3 == IF a2.prev # None THEN transition(a2, bass, soprano) ELSE a2
               IN  [a3 EXCEPT !.prev = <<bass, soprano>>]
          ELSE after_single_note(a1)

RECURSIVE texture_pass(_, _)
texture_pass(acc, chord_stream) ==
    IF chord_stream = <<>> THEN acc
    ELSE texture_pass(texture_step(acc, chord_stream[1]), Tail(chord_stream))

\* the keys written after the loop (extract.py:752-772)
texture_results(acc) ==
    LET r1 == IF acc.note_counts # <<>>
              THEN Put(<<>>, "simultaneous_note_avg",
                       RoundDiv(100 * Sum(acc.note_counts), Len(acc.note_counts)))
              ELSE <<>>
        r2 == IF Len(acc.note_counts) > 1 THEN Put(r1, "texture_variation", V) ELSE r1
        r3 == IF acc.chord_spans # <<>>
              THEN Put(r2, "avg_chord_span",
                       RoundDiv(100 * Sum(acc.chord_spans), Len(acc.chord_spans)))
              ELSE r2
        t == acc.total_transitions
        r4 == IF t > 0
              THEN Put(Put(Put(r3,
                       "contrary_motion_ratio", RoundDiv(1000 * acc.contrary_count, t)),
                       "parallel_motion_ratio", RoundDiv(1000 * acc.parallel_count, t)),
                       "oblique_motion_ratio", RoundDiv(1000 * acc.oblique_count, t))
              ELSE r3
    IN  IF acc.unique_chords # {}
        THEN Put(r4, "unique_chord_count", Cardinality(acc.unique_chords))
        ELSE r4

\* the simultaneities used as inputs: a chord without pitches, a single note,
\* intervals, a triad with its inversion an octave higher and with a doubled
\* root, another triad, a seventh chord, a five-note chord
Simultaneities ==
    {<<>>, <<60>>, <<60, 67>>, <<62, 65>>, <<64, 60, 67>>, <<64, 67, 72>>,
     <<48, 60, 64, 67>>, <<55, 59, 62>>, <<60, 64, 67, 70>>, <<60, 62, 64, 67, 69>>}

InitTexture ==
    /\ score \in [chord_stream : SeqsUpTo(Simultaneities, MaxChords)]
    /\ pc = "call"
    /\ result = <<>>
    /\ cache = NewCache
    /\ runs = NoRuns
    /\ trace = <<>>
    /\ failures = <<>>
    /\ ret = TextureLocals

CallTexture ==
    /\ pc = "call"
    /\ ret' = texture_pass(TextureLocals, score.chord_stream)
    /\ result' = texture_results(ret')
    /\ pc' = "returned"
    /\ UNCHANGED <<score, cache, runs, trace, failures>>

NextTexture == CallTexture

SpecTexture == InitTexture /\ [][NextTexture]_vars

(***************************************************************************)
(* extract_pitch_range, extract_complexity and extract_chromatic_notes by  *)
(* value (extract.py:159-195, 326-353, 860-899), called in that order on   *)
(* one result.  An element of a part is a Note, a Chord or an Unpitched    *)
(* percussion note; a pitch is its pitch-space number in half semitones    *)
(* (120 = C4, 121 = C4 a quarter tone sharp), so that int() and the MIDI   *)
(* rounding have something to do.  score.key is the cached key: its        *)
(* diatonic pitch classes, or None when the analysis failed.               *)
(***************************************************************************)
Note_(ps) == [cls |-> "Note", pitches |-> <<ps>>]

Chord_(pss) == [cls |-> "Chord", pitches |-> pss]

Unpitched == [cls |-> "Unpitched", pitches |-> <<>>]

NoteElements ==
    {Note_(120), Note_(122), Note_(121), Chord_(<<120, 126, 134>>),
     Chord_(<<122, 134>>), Unpitched}

SecondParts == {<<>>, <<<<Note_(110)>>>>, <<<<Chord_(<<144, 151>>), Note_(120)>>>>}

\* key_scale.pitches[:-1] as pitch classes
CMajor == <<0, 2, 4, 5, 7, 9, 11>>
DMajor == <<2, 4, 6, 7, 9, 11, 1>>

RECURSIVE Concat(_)
Concat(xss) == IF xss = <<>> THEN <<>> ELSE xss[1] \o Concat(Tail(xss))

\* the notes of the first part alone
first_part_notes(s) == s.parts[1]

\* the notes of score.flatten(), part after part
flat_notes(s) == Concat(s.parts)

\* what isinstance(n, note.Note) and isinstance(n, chord.Chord) let through
pitches_to_check(n) == IF n.cls \in {"Note", "Chord"} THEN n.pitches ELSE <<>>

\* flat.pitches
all_pitches(notes_list) ==
    Concat([i \in 1..Len(notes_list) |-> pitches_to_check(notes_list[i])])

\* int(x) for x >= 0 given in half semitones
IntOfHalves(x2) == x2 \div 2

\* p.midi: the pitch-space number rounded to an integer
midi(ps2) == RoundDiv(ps2, 2)

nameWithOctave(ps2) == <<"pitch", ps2>>

\* int(sorted_pitches[-1].ps - sorted_pitches[0].ps)
ambitus_semitones(lo, hi) == IntOfHalves(hi - lo)

pitch_range_values(s, res) ==
    LET sorted_pitches == SortedPitches(all_pitches(flat_notes(s))) IN
    IF sorted_pitches = <<>> THEN res
    ELSE LET lo == sorted_pitches[1]
             hi == sorted_pitches[Len(sorted_pitches)]
             r1 == Put(res, "lowest_pitch", nameWithOctave(lo))
             r2 == Put(r1, "highest_pitch", nameWithOctave(hi))
             r3 == Put(r2, "ambitus_semitones", ambitus_semitones(lo, hi))
             r4 == Put(r3, "unique_pitches",
                       Cardinality({sorted_pitches[i] : i \in 1..Len(sorted_pitches)}))
         IN  Put(Put(r4, "pitch_range_per_part", V), "voice_ranges", V)

\* a count of one pitch per event
pitch_count_events(notes_list) ==
    Len(SelectSeq(notes_list, LAMBDA n : n.cls \in {"Note", "Chord"}))

\* pitch_count of extract_complexity: 1 per Note, len(n.pitches) per Chord
pitch_count(notes_list) ==
    Sum([i \in 1..Len(notes_list) |->
            IF notes_list[i].cls = "Note" THEN 1
            ELSE IF notes_list[i].cls = "Chord" THEN Len(notes_list[i].pitches)
            ELSE 0])

complexity_values(s, res) ==
    LET notes_list == flat_notes(s) IN
    Put(Put(Put(res, "event_count", Len(notes_list)),
            "pitch_count", pitch_count(notes_list)),
        "accidental_count", V)

chromatic_count(notes_list, diatonic_pcs) ==
    Len(SelectSeq(all_pitches(notes_list), LAMBDA p : midi(p) % 12 \notin diatonic_pcs))

chromatic_values(s, res) ==
    IF s.key = None THEN res
    ELSE LET diatonic_pcs == {s.key[i] : i \in 1..Len(s.key)}
             count == chromatic_count(flat_notes(s), diatonic_pcs)
             r1 == Put(res, "chromatic_note_count", count)
             pitches == Get(res, "pitch_count", 0)
         IN  IF pitches > 0
             THEN Put(r1, "chromatic_ratio", RoundDiv(1000 * count, pitches))
             ELSE r1

InitNotes ==
    /\ \E first \in SeqsUpTo(NoteElements, MaxNotes) : \E rest \in SecondParts :
       \E k \in {CMajor, DMajor, None} :
          score = [parts |-> <<first>> \o rest, key |-> k]
    /\ pc = "pitch_range"
    /\ result = <<>>
    /\ cache = NewCache
    /\ runs = NoRuns
    /\ trace = <<>>
    /\ failures = <<>>
    /\ ret = FALSE

CallPitchRange ==
    /\ pc = "pitch_range"
    /\ result' = pitch_range_values(score, result)
    /\ pc' = "complexity"
    /\ UNCHANGED <<score, cache, runs, trace, failures, ret>>

CallComplexity ==
    /\ pc = "complexity"
    /\ result' = complexity_values(score, result)
    /\ pc' = "chromatic_notes"
    /\ UNCHANGED <<score, cache, runs, trace, failures, ret>>

CallChromaticNotes ==
    /\ pc = "chromatic_notes"
    /\ result' = chromatic_values(score, result)
    /\ pc' = "returned"
    /\ UNCHANGED <<score, cache, runs, trace, failures, ret>>

NextNotes == CallPitchRange \/ CallComplexity \/ CallChromaticNotes

SpecNotes == InitNotes /\ [][NextNotes]_vars

(***************************************************************************)
(* extract_hand_span by value (extract.py:778-801) inside extract, and the *)
(* backfill extractor extract_chord_span (extract_chord_span.py:19-43), on *)
(* the same file.  score.parsed is what converter.parse returns: a Score   *)
(* with its parts, another stream (a Part, with its own elements as its    *)
(* one entry of parts), or None when the parser raises.  result is the     *)
(* record of extract as far as hand span goes, ret the record of           *)
(* extract_chord_span.                                                     *)
(***************************************************************************)
SpanElements ==
    {Note_(120), Chord_(<<120>>), Chord_(<<120, 120>>), Chord_(<<128, 120, 134>>),
     Chord_(<<120, 134, 144>>), Chord_(<<120, 135>>)}

OtherParts == {<<>>, <<<<Chord_(<<110, 134>>)>>>>, <<<<Chord_(<<110, 134>>)>>, <<Note_(96)>>>>}

Parsed ==
    {[cls |-> "Score", parts |-> <<>>], [cls |-> "raises", parts |-> <<>>]}
    \cup {[cls |-> "Score", parts |-> <<first>> \o rest] :
              first \in SeqsUpTo(SpanElements, MaxNotes), rest \in OtherParts}
    \cup {[cls |-> "Part", parts |-> <<first>>] : first \in SeqsUpTo(SpanElements, MaxNotes)}

\* if not isinstance(score, stream.Score): wrapper = stream.Score();
\* wrapper.append(score); score = wrapper (extract.py:1088-1091)
wrap(parsed) ==
    IF parsed.cls = "Score" THEN parsed ELSE [cls |-> "Score", parts |-> parsed.parts]

\* the spans of the chords of two or more pitches of a part, in whole semitones
part_spans(part) ==
    LET chords == SelectSeq(part, LAMBDA c : c.cls = "Chord" /\ Len(c.pitches) >= 2)
    IN  [i \in 1..Len(chords) |->
            LET pitches_sorted == SortedPitches(chords[i].pitches)
            IN  IntOfHalves(pitches_sorted[Len(pitches_sorted)] - pitches_sorted[1])]

RECURSIVE MaxOf(_, _)
MaxOf(start, xs) ==
    IF xs = <<>> THEN start
    ELSE MaxOf(IF xs[1] > start THEN xs[1] ELSE start, Tail(xs))

\* max_span after the loops over parts and chords
max_span(parts) == MaxOf(0, Concat([i \in 1..Len(parts) |-> part_spans(parts[i])]))

\* a hand span taken whatever the number of parts
hand_span_values_any_parts(s, res) ==
    IF max_span(s.parts) > 0 THEN Put(res, "max_chord_span", max_span(s.parts)) ELSE res

hand_span_values(s, res) ==
    IF Len(s.parts) > 2 THEN res
    ELSE IF max_span(s.parts) > 0 THEN Put(res, "max_chord_span", max_span(s.parts))
    ELSE res

\* extract, as far as extraction_status and max_chord_span go
extract_span_record(parsed) ==
    IF parsed.cls = "raises" THEN Put(<<>>, "extraction_status", "failed")
    ELSE hand_span_values(wrap(parsed), Put(<<>>, "extraction_status", "extracted"))

\* extract_chord_span: score.parts is read on what the parser returned;
\* a stream that is not a Score has no parts attribute
extract_chord_span(parsed) ==
    LET start == [max_chord_span |-> None, error |-> None] IN
    IF parsed.cls = "raises" THEN [start EXCEPT !.error = <<"error", "parse">>]
    ELSE IF parsed.cls # "Score" THEN [start EXCEPT !.error = <<"error", "parts">>]
    ELSE IF Len(parsed.parts) > 2 THEN start
    ELSE IF max_span(parsed.parts) > 0
    THEN [start EXCEPT !.max_chord_span = Some(max_span(parsed.parts))]
    ELSE start

InitSpan ==
    /\ score \in [parsed : Parsed]
    /\ pc = "extract"
    /\ result = <<>>
    /\ cache = NewCache
    /\ runs = NoRuns
    /\ trace = <<>>
    /\ failures = <<>>
    /\ ret = [max_chord_span |-> None, error |-> None]

CallExtract ==
    /\ pc = "extract"
    /\ result' = extract_span_record(score.parsed)
    /\ pc' = "extract_chord_span"
    /\ UNCHANGED <<score, cache, runs, trace, failures, ret>>

CallExtractChordSpan ==
    /\ pc = "extract_chord_span"
    /\ ret' = extract_chord_span(score.parsed)
    /\ pc' = "compared"
    /\ UNCHANGED <<score, result, cache, runs, trace, failures>>

NextSpan == CallExtract \/ CallExtractChordSpan

SpecSpan == InitSpan /\ [][NextSpan]_vars

(***************************************************************************)
(* transform_metadata by value (metadata_transformer.py:115-242).  A raw   *)
(* metadata dict is a function from its keys to tagged values: a string    *)
(* <<"str", s>>, a boolean <<"bool", b>>, a number in hundredths           *)
(* <<"int", n>>, a list <<"list", xs>>, or None.  score.raw is the input,  *)
(* ret the returned dict.                                                  *)
(***************************************************************************)
Str(s) == <<"str", s>>
Bool(b) == <<"bool", b>>
Absent == <<"absent", "key", "of raw">>

DIFFICULTY_WORDS ==
    [beginner |-> <<"list", <<"easy", "beginner", "simple">>>>,
     intermediate |-> <<"list", <<"intermediate", "moderate">>>>,
     advanced |-> <<"list", <<"advanced", "challenging">>>>,
     virtuoso |-> <<"list", <<"virtuoso", "technically demanding", "expert">>>>]

\* value < 0.33, value < 0.66, in hundredths
bucket_01(value) ==
    IF value = None THEN None
    ELSE IF value[2] < 33 THEN Str("low")
    ELSE IF value[2] < 66 THEN Str("medium")
    ELSE Str("high")

\* the cut points taken inclusively
get_difficulty_inclusive(melodic_complexity) ==
    IF melodic_complexity = None THEN DIFFICULTY_WORDS["intermediate"]
    ELSE IF melodic_complexity[2] <= 30 THEN DIFFICULTY_WORDS["beginner"]
    ELSE IF melodic_complexity[2] <= 50 THEN DIFFICULTY_WORDS["intermediate"]
    ELSE IF melodic_complexity[2] <= 70 THEN DIFFICULTY_WORDS["advanced"]
    ELSE DIFFICULTY_WORDS["virtuoso"]

\* _get_difficulty: melodic_complexity < 0.3, < 0.5, < 0.7, in hundredths
get_difficulty(melodic_complexity) ==
    IF melodic_complexity = None THEN DIFFICULTY_WORDS["intermediate"]
    ELSE IF melodic_complexity[2] < 30 THEN DIFFICULTY_WORDS["beginner"]
    ELSE IF melodic_complexity[2] < 50 THEN DIFFICULTY_WORDS["intermediate"]
    ELSE IF melodic_complexity[2] < 70 THEN DIFFICULTY_WORDS["advanced"]
    ELSE DIFFICULTY_WORDS["virtuoso"]

\* the keys of the loop over the boolean fields
BooleanKeys ==
    <<"has_dynamics", "has_articulations", "has_ornaments", "has_tempo_changes",
      "has_fermatas", "has_extracted_lyrics", "is_vocal", "is_instrumental",
      "has_accompaniment">>

\* for key in [...]: val = get(key); if val is not None: out[key] = val
RECURSIVE copy_booleans(_, _, _)
copy_booleans(raw, keys, out) ==
    IF keys = <<>> THEN out
    ELSE copy_booleans(raw, Tail(keys),
                       IF Get(raw, keys[1], None) # None
                       THEN Put(out, keys[1], raw[keys[1]]) ELSE out)

\* return {k: v for k, v in out.items() if v is not None}
remove_none(out) == [k \in {x \in DOMAIN out : out[x] # None} |-> out[k]]

\* transform_metadata on the fields title, key_signature, melodic_complexity
\* and the boolean fields
transform_metadata(raw) ==
    LET title == Get(raw, "title", None)
        out1  == IF title \notin {None, Str(""), Str("NA")}
                 THEN Put(<<>>, "title", title) ELSE <<>>
        out2  == Put(out1, "key_signature", Get(raw, "key_signature", None))
        out3  == Put(out2, "difficulty_level",
                     get_difficulty(Get(raw, "melodic_complexity", None)))
        out4  == Put(out3, "melodic_complexity",
                     bucket_01(Get(raw, "melodic_complexity", None)))
    IN  remove_none(copy_booleans(raw, BooleanKeys, out4))

Complexities == {None, Absent} \cup {Some(n) : n \in {0, 10, 29, 30, 49, 50, 69, 70, 100}}

Flags == {Absent, None, Bool(TRUE), Bool(FALSE)}

RawChoices ==
    [title : {Absent, Str(""), Str("NA"), Str("Prelude in C")},
     key_signature : {Absent, None, Str("C major")},
     melodic_complexity : Complexities,
     has_dynamics : Flags, has_vocal : Flags, is_vocal : Flags]

\* the dict with the chosen keys
RawOf(choice) == [k \in {x \in DOMAIN choice : choice[x] # Absent} |-> choice[k]]

InitMeta ==
    /\ score \in {[raw |-> RawOf(choice)] : choice \in RawChoices}
    /\ pc = "transform"
    /\ result = <<>>
    /\ cache = NewCache
    /\ runs = NoRuns
    /\ trace = <<>>
    /\ failures = <<>>
    /\ ret = <<>>

CallTransformMetadata ==
    /\ pc = "transform"
    /\ ret' = transform_metadata(score.raw)
    /\ pc' = "transformed"
    /\ UNCHANGED <<score, result, cache, runs, trace, failures>>

NextMeta == CallTransformMetadata

SpecMeta == InitMeta /\ [][NextMeta]_vars

(***************************************************************************)
(* The modulation detection of extract_harmony by value                    *)
(* (extract.py:410-439).  score.windows holds, for each window of 8        *)
(* measures in order, what the loop meets there: "empty" (no part of the   *)
(* chunk has notes), "raises" (chunk.analyze raises), "none" (the analysis *)
(* returns a falsy value) or "key" and the Key found.   score.analyzed_key *)
(* is the key of the whole score.  ret holds the locals after the loop,    *)
(* result the keys written.                                                *)
(***************************************************************************)
Key_(tonic, mode) == <<"Key", tonic, mode>>

\* f"{chunk_key.tonic.name} {chunk_key.mode}"
key_str(k) == <<k[2], " ", k[3]>>

WindowOutcomes ==
    {<<"empty">>, <<"raises">>, <<"none">>}
    \cup {<<"key", k>> :
              k \in {Key_("C", "major"), Key_("G", "major"), Key_("C", "minor")}}

\* a detection that records the key of every analysed window after the first
modulation_step_every_window(acc, w) ==
    IF w[1] = "key"
    THEN [modulations |-> IF acc.current_key # None
                          THEN Append(acc.modulations, key_str(w[2]))
                          ELSE acc.modulations,
          current_key |-> key_str(w[2])]
    ELSE acc

\* one turn of the loop over the windows (extract.py:414-433)
modulation_step(acc, w) ==
    IF w[1] = "key"
    THEN [modulations |-> IF acc.current_key # None /\ key_str(w[2]) # acc.current_key
                          THEN Append(acc.modulations, key_str(w[2]))
                          ELSE acc.modulations,
          current_key |-> key_str(w[2])]
    ELSE acc

RECURSIVE modulation_pass(_, _)
modulation_pass(acc, windows) ==
    IF windows = <<>> THEN acc
    ELSE modulation_pass(modulation_step(acc, windows[1]), Tail(windows))

\* the keys of extract_harmony that depend on the keys found (393-395, 435-438)
harmony_values(s, acc) ==
    LET r1 == IF s.analyzed_key # None
              THEN Put(<<>>, "key_signature", key_str(s.analyzed_key)) ELSE <<>>
    IN  IF acc.modulations # <<>>
        THEN Put(Put(Put(r1,
                 "modulations", <<Get(r1, "key_signature", <<>>)>> \o acc.modulations),
                 "modulation_count", Len(acc.modulations)),
                 "modulation_targets", acc.modulations)
        ELSE r1

InitModulation ==
    /\ score \in [windows : SeqsUpTo(WindowOutcomes, MaxWindows),
                   analyzed_key : {None, Key_("C", "major")}]
    /\ pc = "call"
    /\ result = <<>>
    /\ cache = NewCache
    /\ runs = NoRuns
    /\ trace = <<>>
    /\ failures = <<>>
    /\ ret = [modulations |-> <<>>, current_key |-> None]

CallHarmony ==
    /\ pc = "call"
    /\ ret' = modulation_pass([modulations |-> <<>>, current_key |-> None], score.windows)
    /\ result' = harmony_values(score, ret')
    /\ pc' = "returned"
    /\ UNCHANGED <<score, cache, runs, trace, failures>>

NextModulation == CallHarmony

SpecModulation == InitModulation /\ [][NextModulation]_vars

(***************************************************************************)
(* The final cadence of extract_structure by value (extract.py:513-535).   *)
(* score.chords are the Chord elements of the chordified score, each as    *)
(* the scale degree it stands on in the analysed key, its quality and the  *)
(* figures of its inversion or seventh; score.analyzed_key is the key of   *)
(* the score or None; score.raises tells whether chordifying or reading a  *)
(* roman numeral raises.                                                   *)
(***************************************************************************)
FinalChord(degree, quality, figures) == <<degree, quality, figures>>

\* roman.romanNumeralFromChord: the numeral of the degree, upper case for a
\* major chord, and the figure, the numeral followed by the figures
romanNumeralFromChord(c, key) ==
    LET upper == <<"I", "II", "III", "IV", "V", "VI", "VII">>
        lower == <<"i", "ii", "iii", "iv", "v", "vi", "vii">>
        numeral == IF c[2] = "major" THEN upper[c[1]] ELSE lower[c[1]]
    IN  [romanNumeral |-> numeral, figure |-> <<numeral, c[3]>>]

\* a classification that tests for the tonic before anything else
cadence_label_tonic_first(second_last_rn, last_rn) ==
    IF last_rn.romanNumeral = "I" THEN <<"IAC">>
    ELSE IF last_rn.romanNumeral = "V" THEN <<"HC">>
    ELSE second_last_rn.figure \o <<"-">> \o last_rn.figure

\* the chain of tests at extract.py:524-533
cadence_label(second_last_rn, last_rn) ==
    IF last_rn.romanNumeral = "I" /\ second_last_rn.romanNumeral \in {"V", "V7"}
    THEN <<"PAC">>
    ELSE IF last_rn.romanNumeral = "I" /\ second_last_rn.romanNumeral = "IV"
    THEN <<"plagal">>
    ELSE IF last_rn.romanNumeral = "V" THEN <<"HC">>
    ELSE IF last_rn.romanNumeral = "I" THEN <<"IAC">>
    ELSE second_last_rn.figure \o <<"-">> \o last_rn.figure

\* list(...)[-4:]
LastFour(xs) == IF Len(xs) <= 4 THEN xs ELSE SubSeq(xs, Len(xs) - 3, Len(xs))

final_cadence_values(s, res) ==
    IF s.raises THEN res
    ELSE LET final_chords == LastFour(s.chords) IN
         IF Len(final_chords) >= 2 /\ s.analyzed_key # None
         THEN Put(res, "final_cadence",
                  cadence_label(
                      romanNumeralFromChord(final_chords[Len(final_chords) - 1], s.analyzed_key),
                      romanNumeralFromChord(final_chords[Len(final_chords)], s.analyzed_key)))
         ELSE res

FinalChords ==
    {FinalChord(d[1], d[2], f) :
        d \in {<<1, "major">>, <<1, "minor">>, <<4, "major">>, <<5, "major">>, <<6, "minor">>},
        f \in {"", "7"}}

InitCadence ==
    /\ score \in [chords : SeqsUpTo(FinalChords, MaxChords),
                   analyzed_key : {None, Key_("C", "major")},
                   raises : BOOLEAN]
    /\ pc = "call"
    /\ result = <<>>
    /\ cache = NewCache
    /\ runs = NoRuns
    /\ trace = <<>>
    /\ failures = <<>>
    /\ ret = <<>>

CallStructure ==
    /\ pc = "call"
    /\ result' = final_cadence_values(score, <<>>)
    /\ pc' = "returned"
    /\ UNCHANGED <<score, cache, runs, trace, failures, ret>>

NextCadence == CallStructure

SpecCadence == InitCadence /\ [][NextCadence]_vars

(***************************************************************************)
(* extract_melody by value (extract.py:452-489).  score.parts holds the    *)
(* elements of each flattened part, pitches in whole semitones;            *)
(* score.raises is the set of positions i for which building the interval  *)
(* from the i-th to the next melody note raises.  result holds the keys    *)
(* written.                                                                *)
(***************************************************************************)
MelodyKeys == {"interval_distribution", "interval_count", "largest_interval", "stepwise_count"}

MelodyElements == {Note_(60), Note_(62), Note_(61), Note_(67), Note_(76), Chord_(<<60, 64>>)}

\* [n for n in melody_part.flatten().notes if isinstance(n, note.Note)]
melody_notes(s) == SelectSeq(s.parts[1], LAMBDA n : n.cls = "Note")

\* intv.simpleName, as the size of the interval brought within an octave
simpleName(semitones) == IF semitones = 0 THEN 0 ELSE ((semitones - 1) % 12) + 1

Abs(x) == IF x < 0 THEN -x ELSE x

\* a step no wider than a semitone
is_step_semitone(semitones) == semitones <= 1

\* if semitones <= 2
is_step(semitones) == semitones <= 2

\* one turn of the loop over the pairs of melody notes (extract.py:469-478)
melody_step(s, acc, notes, i) ==
    IF i \in s.raises THEN acc
    ELSE LET semitones == Abs(notes[i + 1].pitches[1] - notes[i].pitches[1])
             name == simpleName(semitones)
         IN  [intervals |-> Put(acc.intervals, name, Get(acc.intervals, name, 0) + 1),
              interval_semitones |-> Append(acc.interval_semitones, semitones),
              stepwise_count |-> acc.stepwise_count + (IF is_step(semitones) THEN 1 ELSE 0)]

RECURSIVE melody_pass(_, _, _, _)
melody_pass(s, acc, notes, i) ==
    IF i >= Len(notes) THEN acc
    ELSE melody_pass(s, melody_step(s, acc, notes, i), notes, i + 1)

melody_values(s, res) ==
    IF s.parts = <<>> THEN res
    ELSE IF Len(melody_notes(s)) < 2 THEN res
    ELSE LET acc == melody_pass(s, [intervals |-> <<>>, interval_semitones |-> <<>>,
                                    stepwise_count |-> 0], melody_notes(s), 1)
             r1 == IF acc.intervals # <<>>
                   THEN Put(Put(res, "interval_distribution", acc.intervals),
                            "interval_count", Len(acc.interval_semitones))
                   ELSE res
         IN  IF acc.interval_semitones # <<>>
             THEN Put(Put(r1, "largest_interval", MaxOf(0, acc.interval_semitones)),
                      "stepwise_count", acc.stepwise_count)
             ELSE r1

InitMelody ==
    /\ \E first \in SeqsUpTo(MelodyElements, MaxNotes) :
       \E parts \in {<<>>, <<first>>, <<first, <<Note_(48), Note_(55)>>>>} :
       \E raises \in SUBSET (1..(MaxNotes - 1)) :
          score = [parts |-> parts, raises |-> raises]
    /\ pc = "call"
    /\ result = <<>>
    /\ cache = NewCache
    /\ runs = NoRuns
    /\ trace = <<>>
    /\ failures = <<>>
    /\ ret = <<>>

CallMelody ==
    /\ pc = "call"
    /\ result' = melody_values(score, <<>>)
    /\ pc' = "returned"
    /\ UNCHANGED <<score, cache, runs, trace, failures, ret>>

NextMelody == CallMelody

SpecMelody == InitMelody /\ [][NextMelody]_vars

(***************************************************************************)
(* Claims about ScoreCache, under SpecCache.                               *)
(***************************************************************************)
Memoized == {"flat", "notes", "chordified"}

SameObjectOnEveryAccess ==
    \A i \in 1..Len(trace) : \A j \in i..Len(trace) :
        (trace[i].acc = trace[j].acc /\ trace[i].acc \in Memoized /\ ~trace[i].raised)
            => (~trace[j].raised /\ trace[j].value = trace[i].value)

\* C7 as stated: over any sequence of accesses to flat, notes and chordified,
\* flatten, the note-list construction and chordify are each executed at most
\* once, and every access returns the object of the first access.
C7_EachExecutedAtMostOnce ==
    /\ runs.flatten <= 1
    /\ runs.notes <= 1
    /\ runs.chordify <= 1
    /\ SameObjectOnEveryAccess

\* C7 amended: a computation that returned is never executed again (the stored
\* object is the one of the last execution, and there is at most one execution
\* when the computation does not raise), and from the first access that returns
\* on, every access to that accessor returns the identical object; a
\* computation that raises stores nothing and is executed again by the next
\* access.
C7_ExecutedAtMostOnceUnlessItRaises ==
    /\ cache.flat # None => (cache.flat = <<"flat", runs.flatten>> /\ runs.flatten = 1)
    /\ cache.flat_notes # None => (cache.flat_notes = <<"notes", runs.notes>> /\ runs.notes = 1)
    /\ cache.chordified # None
          => (cache.chordified = <<"chordified", runs.chordify>> /\ runs.chordify = 1)
    /\ (cache.chordified = None /\ ~score.chordifyOk)
          => runs.chordify = Cardinality({i \in 1..Len(trace) : trace[i].acc = "chordified"})
    /\ SameObjectOnEveryAccess

\* chordified was returned twice and chordify ran once
C7_Witness ==
    /\ runs.chordify = 1
    /\ \E i \in 1..Len(trace) : \E j \in (i + 1)..Len(trace) :
          /\ trace[i].acc = "chordified" /\ trace[j].acc = "chordified"
          /\ ~trace[i].raised /\ ~trace[j].raised

KeyAccesses == {i \in 1..Len(trace) : trace[i].acc = "analyzed_key"}

\* C8: analyzed_key never raises; when the analysis throws it returns None and
\* stores False (not None), so the analysis is never run again; a key that was
\* analysed is returned unchanged on every access.
C8_AnalyzedKeyNeverRaises ==
    /\ \A i \in KeyAccesses :
          /\ ~trace[i].raised
          /\ trace[i].value = (IF score.keyOk THEN <<"key", 1>> ELSE None)
    /\ runs.analyze <= 1
    /\ KeyAccesses # {} => runs.analyze = 1
    /\ (KeyAccesses # {} /\ ~score.keyOk) => (cache.analyzed_key = False /\ False # None)

\* the analysis threw and analyzed_key was read twice
C8_Witness ==
    /\ ~score.keyOk
    /\ Cardinality(KeyAccesses) >= 2

(***************************************************************************)
(* Claims about is_multi_movement, under SpecMM.                           *)
(***************************************************************************)
\* (a) two distinct dictionary terms occur in the lower-cased text expressions
TwoMovementNames ==
    LET lowered == [i \in 1..Len(score.texts) |-> Lower(score.texts[i])]
        occurring == {n \in MOVEMENT_NAMES :
                         \E i \in 1..Len(lowered) : Contains(n, lowered[i])}
    IN  Cardinality(occurring) >= 2

\* (b) the first part has more than 2 measures and a measure other than its
\* last carries a final or light-heavy right barline
FinalBarlineBeforeLast ==
    /\ Len(score.parts) >= 1
    /\ Len(score.parts[1].measures) > 2
    /\ \E m \in 1..(Len(score.parts[1].measures) - 1) :
          score.parts[1].measures[m] \in {"final", "light-heavy"}

\* C9: is_multi_movement returns true whenever (a) or (b) holds.
C9_TrueOnNamesOrBarline ==
    (pc = "returned" /\ (TwoMovementNames \/ FinalBarlineBeforeLast)) => ret = TRUE

\* a barline-only score: no movement name, the final barline on measure 2 of 3
C9_Witness ==
    /\ pc = "returned"
    /\ ~TwoMovementNames
    /\ Len(score.parts) >= 1
    /\ Len(score.parts[1].measures) = 3
    /\ score.parts[1].measures[2] = "final"
    /\ ret = TRUE

\* C10 as stated: a score whose text expressions carry one movement name, any
\* single entry of the dictionary, and no final/light-heavy barline before
\* its last measure is reported as not multi-movement.
C10_SingleNameNotSufficient ==
    (/\ pc = "returned"
     /\ Len(score.texts) = 1
     /\ Lower(score.texts[1]) \in MOVEMENT_NAMES
     /\ ~FinalBarlineBeforeLast) => ret = FALSE

Warnings == Get(result, "_warnings", Get(result, "_extraction_warnings", <<>>))

Status == result["extraction_status"]

AnalyzerNames == {ANALYZERS[i] : i \in 1..Len(ANALYZERS)}

AnalyzerFailures == {i \in 1..Len(failures) : failures[i].name \in AnalyzerNames}

SetupFailed == \E i \in 1..Len(failures) : failures[i].name = "extract"

TempoKeys == {"tempo_bpm", "tempo_marking", "tempo_referent", "duration_seconds"}

\* C1: in every record, if is_multi_movement is true then none of tempo_bpm,
\* tempo_marking, tempo_referent, duration_seconds is present, whatever
\* metronome marks or tempo texts the score carries.
C1_NoTempoWhenMultiMovement ==
    ("is_multi_movement" \in DOMAIN result /\ result["is_multi_movement"])
        => DOMAIN result \cap TempoKeys = {}

\* a returned record of a multi-movement score that carries a metronome mark
C1_Witness ==
    /\ pc = "done"
    /\ Get(result, "is_multi_movement", FALSE)
    /\ score.tempos # <<>>
    /\ score.tempos[1].number = 120

\* C2: if an analyzer fails, every analyzer after it is still invoked, in the
\* fixed order and with the cache in the record, and the record ends with
\* extraction_status = extracted.
C2_FailureDoesNotStopTheRun ==
    AnalyzerFailures # {} =>
        /\ pc \in AnalyzerNames => (pc = ANALYZERS[Len(trace) + 1] /\ "_cache" \in DOMAIN result)
        /\ trace = SubSeq(ANALYZERS, 1, Len(trace))
        /\ pc \in {"finish", "cleanup", "done"} => trace = ANALYZERS
        /\ pc = "done" => Status = "extracted"

\* the first analyzer failed at its boundary and the run went on to its end
C2_Witness ==
    /\ pc = "done"
    /\ \E i \in AnalyzerFailures : failures[i].name = "pitch_range" /\ failures[i].blk = "outer"
    /\ trace = ANALYZERS
    /\ Status = "extracted"

\* C3: extraction_status starts as pending and changes exactly once; a
\* returned record carries extracted or failed; it is failed only when the
\* parse or the normalisation into a Score raised, extracted only after all
\* analyzers were attempted; no analyzer is run twice.
C3_StatusInvariant ==
    /\ Status \in {"pending", "extracted", "failed"}
    /\ Status = "pending" <=> pc \notin {"cleanup", "done"}
    /\ Status = "failed" => (SetupFailed /\ trace = <<>>)
    /\ Status = "extracted" => (~SetupFailed /\ trace = ANALYZERS)
    /\ trace = SubSeq(ANALYZERS, 1, Len(trace))

C3_StatusStep ==
    result'["extraction_status"] # Status
        => (Status = "pending" /\ result'["extraction_status"] \in {"extracted", "failed"})

C3_StatusChangesOnce == [](C3_StatusInvariant) /\ [][C3_StatusStep]_vars

\* a record returned as failed after the normalisation raised
C3_Witness ==
    /\ pc = "done"
    /\ Status = "failed"
    /\ score.parse = "unwrappable"

\* C4 as stated: when an analyzer fails (a warning names it), none of that
\* analyzer's own output keys is present in the record.
C4_FailedAnalyzerLeavesNoKeys ==
    \A i \in 1..Len(Warnings) :
        DOMAIN result \cap GroupKeys[Warnings[i][1]] = {}

RECURSIVE BoundaryWarnings(_)
BoundaryWarnings(log) ==
    IF log = <<>> THEN <<>>
    ELSE (IF log[1].blk = "outer" THEN <<<<log[1].name, log[1].at>>>> ELSE <<>>)
         \o BoundaryWarnings(Tail(log))

C6_KeyEstimatedAtMostOnce == runs.analyze <= 1

\* the tempo analyzer has returned without raising to its boundary
TempoDurationDone ==
    /\ Len(trace) >= 2
    /\ \A i \in 1..Len(failures) :
          ~(failures[i].name = "tempo_duration" /\ failures[i].blk = "outer")

\* C12: for a single-movement score, duration_seconds is present exactly when
\* tempo_bpm > 0 and total_quarter_length > 0, and then it is
\* (total_quarter_length / (tempo_bpm * referent)) * 60 rounded to 1 decimal,
\* referent being tempo_referent, or 1.0 when that is unavailable;
\* total_quarter_length 30, tempo_bpm 120, tempo_referent 1.5 gives 10.0.
C12_DurationFormula ==
    (TempoDurationDone /\ Get(result, "is_multi_movement", TRUE) = FALSE) =>
        LET bpm == Get(result, "tempo_bpm", None)
            Q == Get(result, "total_quarter_length", 0)
            F == Get(result, "tempo_referent", 0)
            ref == IF F > 0 THEN F ELSE 1000
            d == result["duration_seconds"]
            diff == d * bpm[2] * ref - 6000 * Q
        IN  /\ "duration_seconds" \in DOMAIN result
                <=> (bpm # None /\ bpm[2] > 0 /\ Q > 0)
            /\ "duration_seconds" \in DOMAIN result =>
                   /\ 2 * diff <= bpm[2] * ref
                   /\ -2 * diff <= bpm[2] * ref
                   /\ (Q = 3000 /\ bpm[2] = 120 /\ F = 1500) => d = 100

\* the record of 30 quarter notes at dotted quarter = 120: 10.0 seconds
C12_Witness ==
    /\ pc = "done"
    /\ Get(result, "is_multi_movement", TRUE) = FALSE
    /\ Get(result, "total_quarter_length", 0) = 3000
    /\ Get(result, "tempo_referent", 0) = 1500
    /\ Get(result, "duration_seconds", 0) = 100

(***************************************************************************)
(* Claims about two runs of extract, under SpecTwice.                      *)
(***************************************************************************)
\* C13 as stated: two separate runs of extract on the same input yield
\* identical records, the joined strings detected_instruments and
\* instrument_families included.
C13_TwoRunsIdentical == pc = "compared" => result = ret

(***************************************************************************)
(* Claims about a missing input file, under Spec.                          *)
(***************************************************************************)
\* C14: extract called with a path to a non-existent file returns a record
\* with extraction_status = failed and a non-null extraction_error; the call
\* returns, no exception propagates.
C14_MissingFileFailsGracefully ==
    score.parse = "missing" =>
        /\ pc \in {"parse", "cleanup", "done"}
        /\ pc \in {"cleanup", "done"} =>
               /\ Status = "failed"
               /\ result["extraction_error"] # None
        /\ trace = <<>>

\* extract has returned the record of a missing file
C14_Witness ==
    /\ score.parse = "missing"
    /\ pc = "done"
    /\ Status = "failed"

\* C15 as stated: a missing input file is detected by an existence check
\* before any parse attempt: for a missing path no parse of the file is ever
\* started.
C15_NoParseOfMissingFile == score.parse = "missing" => runs.parse = 0

(***************************************************************************)
(* Claims about extract_batch, under SpecBatch.                            *)
(***************************************************************************)
\* C16: extract_batch over n paths writes exactly n lines, one record per
\* input path in order, each carrying that path as file_path, and returns
\* stats with total = n and extracted + failed = n, sequentially and for
\* every worker count.
C16_OneLinePerPath ==
    /\ Len(trace) <= Len(score.paths)
    /\ \A i \in 1..Len(trace) : trace[i].file_path = score.paths[i]
    /\ pc # "start" =>
           /\ result.total = Len(score.paths)
           /\ result.extracted + result.failed = Len(trace)
    /\ pc = "returned" =>
           /\ Len(trace) = Len(score.paths)
           /\ ret.total = Len(score.paths)
           /\ ret.extracted + ret.failed = Len(score.paths)

\* a parallel batch over three paths has returned, with records of both
\* outcomes
C16_Witness ==
    /\ pc = "returned"
    /\ EffectiveWorkers(score) > 1
    /\ Len(score.paths) = 3
    /\ score.paths[1] # score.paths[2]
    /\ ret.extracted >= 1
    /\ ret.failed >= 1

(***************************************************************************)
(* Claims about extract_texture, under SpecTexture.                        *)
(***************************************************************************)
MotionKeys == {"contrary_motion_ratio", "parallel_motion_ratio", "oblique_motion_ratio"}

\* the chords of the stream that have pitches, each as its sorted pitches
NonEmptyChords ==
    SelectSeq([i \in 1..Len(score.chord_stream) |-> SortedPitches(score.chord_stream[i])],
              LAMBDA c : c # <<>>)

\* two chords of two or more pitches each, with nothing but chords without
\* pitches between them, differ in their bass or in their soprano
QualifyingTransition ==
    \E i \in 1..(Len(NonEmptyChords) - 1) :
        LET a == NonEmptyChords[i]
            b == NonEmptyChords[i + 1]
        IN  /\ Len(a) >= 2
            /\ Len(b) >= 2
            /\ (a[1] # b[1] \/ a[Len(a)] # b[Len(b)])

\* C17: after any sequence of simultaneities contrary_count + parallel_count
\* + oblique_count = total_transitions; the three motion ratios are emitted
\* together and sum to 1.0 within rounding whenever a qualifying transition
\* exists, and none of them is emitted when none exists.
C17_MotionRatios ==
    pc = "returned" =>
        /\ ret.contrary_count + ret.parallel_count + ret.oblique_count
              = ret.total_transitions
        /\ (ret.total_transitions > 0) <=> QualifyingTransition
        /\ QualifyingTransition =>
               /\ MotionKeys \subseteq DOMAIN result
               /\ LET sum == result["contrary_motion_ratio"]
                              + result["parallel_motion_ratio"]
                              + result["oblique_motion_ratio"]
                  IN  999 <= sum /\ sum <= 1001
        /\ ~QualifyingTransition => MotionKeys \cap DOMAIN result = {}

\* three chords with one contrary and one oblique transition
C17_Witness ==
    /\ pc = "returned"
    /\ ret.total_transitions = 2
    /\ ret.contrary_count = 1
    /\ ret.oblique_count = 1
    /\ result["contrary_motion_ratio"] = 500

\* the pitch-class sets of size 3 or 4 among the simultaneities
TriadsAndSevenths ==
    {pcs \in {{score.chord_stream[i][j] % 12 : j \in 1..Len(score.chord_stream[i])} :
                i \in 1..Len(score.chord_stream)} :
        Cardinality(pcs) \in {3, 4}}

\* C19: unique_chord_count equals the number of distinct pitch-class sets of
\* size 3 or 4 among the simultaneities: a chord repeated in another octave
\* or inversion does not increase it, and pitch-class sets of size below 3
\* or above 4 never contribute; the key is absent when there is none.
C19_UniqueChordCount ==
    pc = "returned" =>
        /\ "unique_chord_count" \in DOMAIN result <=> TriadsAndSevenths # {}
        /\ "unique_chord_count" \in DOMAIN result =>
               result["unique_chord_count"] = Cardinality(TriadsAndSevenths)

\* a triad, its inversion an octave higher and a five-note chord count as one
C19_Witness ==
    /\ pc = "returned"
    /\ score.chord_stream = <<<<64, 60, 67>>, <<64, 67, 72>>, <<60, 62, 64, 67, 69>>>>
    /\ result["unique_chord_count"] = 1

(***************************************************************************)
(* Claims about the note analyzers, under SpecNotes.                       *)
(***************************************************************************)
\* every pitch of every note and chord of the score, as a set
ScorePitches ==
    UNION {{score.parts[i][j].pitches[k] : k \in 1..Len(score.parts[i][j].pitches)} :
              <<i, j>> \in {<<a, b>> \in (1..Len(score.parts)) \X (1..(MaxNotes + 1)) :
                               b <= Len(score.parts[a])}}

\* C18: whenever chromatic_ratio is present it lies in [0,1], since
\* chromatic_note_count never exceeds pitch_count, and it is 0 when the
\* pitch class of every pitch belongs to the key's diatonic pitch classes.
C18_ChromaticRatioRange ==
    "chromatic_ratio" \in DOMAIN result =>
        /\ 0 <= result["chromatic_ratio"]
        /\ result["chromatic_ratio"] <= 1000
        /\ result["chromatic_note_count"] <= result["pitch_count"]
        /\ (\A p \in ScorePitches :
               \E i \in 1..Len(score.key) : RoundDiv(p, 2) % 12 = score.key[i])
              => result["chromatic_ratio"] = 0

\* a chord and a note in D major, strictly diatonic: the ratio is 0
C18_Witness ==
    /\ pc = "returned"
    /\ score.key = DMajor
    /\ score.parts = <<<<Chord_(<<122, 134>>), Note_(122)>>>>
    /\ result["pitch_count"] = 3
    /\ result["chromatic_ratio"] = 0

Lowest == CHOOSE p \in ScorePitches : \A q \in ScorePitches : p <= q

Highest == CHOOSE p \in ScorePitches : \A q \in ScorePitches : q <= p

PitchRangeDone == pc # "pitch_range" /\ ScorePitches # {}

\* C20 as stated: whenever the score has at least one pitch, lowest_pitch
\* and highest_pitch are the minimum and maximum by pitch space over all
\* pitches of all parts, and ambitus_semitones equals the highest pitch-space
\* value minus the lowest and is a non-negative integer.
C20_AmbitusIsDifference ==
    PitchRangeDone =>
        /\ {"lowest_pitch", "highest_pitch", "ambitus_semitones"} \subseteq DOMAIN result
        /\ result["lowest_pitch"] = nameWithOctave(Lowest)
        /\ result["highest_pitch"] = nameWithOctave(Highest)
        /\ result["ambitus_semitones"] >= 0
        /\ 2 * result["ambitus_semitones"] = Highest - Lowest

\* C20 amended: whenever the score has at least one pitch, lowest_pitch and
\* highest_pitch are the minimum and maximum by pitch space over all pitches
\* of all parts, and ambitus_semitones is the highest pitch-space value minus
\* the lowest truncated to an integer: a non-negative integer, equal to the
\* difference whenever that is a whole number of semitones.
C20_AmbitusIsTruncatedDifference ==
    PitchRangeDone =>
        /\ {"lowest_pitch", "highest_pitch", "ambitus_semitones"} \subseteq DOMAIN result
        /\ result["lowest_pitch"] = nameWithOctave(Lowest)
        /\ result["highest_pitch"] = nameWithOctave(Highest)
        /\ result["ambitus_semitones"] >= 0
        /\ 2 * result["ambitus_semitones"] <= Highest - Lowest
        /\ Highest - Lowest < 2 * result["ambitus_semitones"] + 2
        /\ (Highest - Lowest) % 2 = 0 =>
               2 * result["ambitus_semitones"] = Highest - Lowest

\* two parts, the lowest pitch in the second, a quarter tone in the first:
\* from G3 to C4 raised by a quarter tone the ambitus is 5
C20_Witness ==
    /\ pc = "returned"
    /\ Len(score.parts) = 2
    /\ Lowest = 110
    /\ Highest = 121
    /\ result["ambitus_semitones"] = 5

(***************************************************************************)
(* Claims about the hand span, under SpecSpan.                             *)
(***************************************************************************)
\* top pitch minus bottom pitch, in half semitones, of every chord of two or
\* more pitches of every part of the score extract works on
ChordSpansInHalves ==
    LET parts == score.parsed.parts IN
    UNION {{LET ps == {parts[i][j].pitches[k] : k \in 1..Len(parts[i][j].pitches)}
            IN  (CHOOSE hi \in ps : \A q \in ps : q <= hi)
                - (CHOOSE lo \in ps : \A q \in ps : lo <= q) :
              j \in {n \in 1..Len(parts[i]) : /\ parts[i][n].cls = "Chord"
                                              /\ Len(parts[i][n].pitches) >= 2}} :
           i \in 1..Len(parts)}

WidestInHalves == CHOOSE w \in ChordSpansInHalves : \A x \in ChordSpansInHalves : x <= w

HandSpanDone == pc # "extract" /\ score.parsed.cls # "raises"

\* C21 as stated: max_chord_span is emitted only for scores with at most 2
\* parts, and then equals the maximum, over all chords with at least 2
\* pitches in any part, of top pitch minus bottom pitch in semitones; for
\* scores with more than 2 parts the key is absent.
C21_MaxChordSpanIsWidest ==
    HandSpanDone =>
        /\ Len(score.parsed.parts) > 2 => "max_chord_span" \notin DOMAIN result
        /\ "max_chord_span" \in DOMAIN result =>
               /\ ChordSpansInHalves # {}
               /\ 2 * result["max_chord_span"] = WidestInHalves

\* C21 amended: max_chord_span is emitted only for scores with at most 2
\* parts in which some chord spans at least one whole semitone, and then
\* equals the maximum, over all chords with at least 2 pitches in any part,
\* of top pitch minus bottom pitch truncated to whole semitones; for scores
\* with more than 2 parts, or without such a chord, the key is absent.
C21_MaxChordSpanIsWidestTruncated ==
    HandSpanDone =>
        LET emitted == /\ Len(score.parsed.parts) <= 2
                       /\ \E w \in ChordSpansInHalves : w >= 2
        IN  /\ "max_chord_span" \in DOMAIN result <=> emitted
            /\ emitted => result["max_chord_span"] = WidestInHalves \div 2

\* the piano excerpt: a triad of span 7 and a voicing of span 12 give 12
C21_Witness ==
    /\ pc = "compared"
    /\ score.parsed.cls = "Score"
    /\ score.parsed.parts = <<<<Chord_(<<128, 120, 134>>), Chord_(<<120, 134, 144>>)>>>>
    /\ result["max_chord_span"] = 12

\* C30 as stated: for every input file, extract_chord_span returns
\* max_chord_span = v exactly when extract's record contains
\* max_chord_span = v, and null exactly when the key is absent from it.
C30_BackfillAgreesWithExtract ==
    pc = "compared" =>
        /\ ret.max_chord_span = None <=> "max_chord_span" \notin DOMAIN result
        /\ ret.max_chord_span # None => ret.max_chord_span = Some(result["max_chord_span"])

(***************************************************************************)
(* Claims about transform_metadata, under SpecMeta.                        *)
(***************************************************************************)
\* C22: transform_metadata preserves boolean input fields with their value,
\* including False: an input with has_dynamics = True and has_vocal = False
\* gives an output with has_dynamics = True and has_vocal = False.
C22_BooleansPreserved ==
    pc = "transformed" =>
        \A k \in DOMAIN score.raw :
            score.raw[k] \in {Bool(TRUE), Bool(FALSE)} =>
                k \in DOMAIN ret /\ ret[k] = score.raw[k]

\* the melodic complexity handed to _get_difficulty, None when the key is missing
GivenComplexity == Get(score.raw, "melodic_complexity", None)

\* C23: _get_difficulty(None) is the intermediate level; values below 0.3
\* map to beginner, values in [0.3, 0.5) to intermediate, [0.5, 0.7) to
\* advanced, and 0.7 or above to virtuoso.
C23_DifficultySteps ==
    pc = "transformed" =>
        /\ "difficulty_level" \in DOMAIN ret
        /\ LET level == ret["difficulty_level"]
                x == GivenComplexity
            IN  /\ x = None => level = <<"list", <<"intermediate", "moderate">>>>
                /\ x # None =>
                      /\ x[2] < 30 <=> level[2][1] = "easy"
                      /\ (30 <= x[2] /\ x[2] < 50) <=> level[2][1] = "intermediate"
                      /\ (50 <= x[2] /\ x[2] < 70) <=> level[2][1] = "advanced"
                      /\ 70 <= x[2] <=> level[2][1] = "virtuoso"

\* a complexity on a cut point has been mapped
C23_Witness ==
    /\ pc = "transformed"
    /\ GivenComplexity = Some(30)
    /\ ret["difficulty_level"] = DIFFICULTY_WORDS["intermediate"]

(***************************************************************************)
(* The voice-leading chain of extract_texture, under SpecTexture.          *)
(***************************************************************************)
\* the positions i where the i-th and the next simultaneity with pitches
\* both have two or more pitches
AdjacentChordPairs ==
    {i \in 1..(Len(NonEmptyChords) - 1) :
        Len(NonEmptyChords[i]) >= 2 /\ Len(NonEmptyChords[i + 1]) >= 2}

BassMotion(i) == NonEmptyChords[i + 1][1] - NonEmptyChords[i][1]

SopranoMotion(i) ==
    NonEmptyChords[i + 1][Len(NonEmptyChords[i + 1])] - NonEmptyChords[i][Len(NonEmptyChords[i])]

\* C24: a voice-leading transition is evaluated only between two
\* simultaneities with at least 2 pitches that are adjacent in the chord
\* stream; after a single-note simultaneity the tracking is reset, so the
\* next chord is never compared with a chord that preceded the single note:
\* the transitions counted are those of the adjacent pairs, by kind.
C24_OnlyAdjacentChordsCompared ==
    pc = "returned" =>
        /\ ret.total_transitions =
              Cardinality({i \in AdjacentChordPairs : BassMotion(i) # 0 \/ SopranoMotion(i) # 0})
        /\ ret.oblique_count =
              Cardinality({i \in AdjacentChordPairs : (BassMotion(i) = 0) # (SopranoMotion(i) = 0)})
        /\ ret.contrary_count =
              Cardinality({i \in AdjacentChordPairs :
                  \/ BassMotion(i) > 0 /\ SopranoMotion(i) < 0
                  \/ BassMotion(i) < 0 /\ SopranoMotion(i) > 0})

\* two different intervals with a single note between them: no transition
C24_Witness ==
    /\ pc = "returned"
    /\ score.chord_stream = <<<<60, 67>>, <<60>>, <<62, 65>>>>
    /\ ret.total_transitions = 0
    /\ ret.prev = <<62, 65>>

(***************************************************************************)
(* Claims about modulation detection, under SpecModulation.                *)
(***************************************************************************)
\* the key labels of the non-empty, successfully analysed windows, in order
AnalysedLabels ==
    LET analysed == SelectSeq(score.windows, LAMBDA w : w[1] = "key")
    IN  [i \in 1..Len(analysed) |-> <<analysed[i][2][2], " ", analysed[i][2][3]>>]

\* the labels that differ from the label of the analysed window before them
LabelChanges ==
    LET at == SelectSeq([i \in 1..Len(AnalysedLabels) |-> i],
                        LAMBDA i : i > 1 /\ AnalysedLabels[i] # AnalysedLabels[i - 1])
    IN  [j \in 1..Len(at) |-> AnalysedLabels[at[j]]]

\* C25: a key label is appended to modulation_targets exactly when the
\* window's label differs from the label of the previous non-empty,
\* successfully analysed window; the first analysed window never produces
\* an entry, no two consecutive entries are equal, and modulation_count
\* equals the number of entries.
C25_ModulationTargetsAreLabelChanges ==
    pc = "returned" =>
        /\ ret.modulations = LabelChanges
        /\ Len(ret.modulations) < Len(AnalysedLabels) \/ AnalysedLabels = <<>>
        /\ \A j \in 1..(Len(ret.modulations) - 1) : ret.modulations[j] # ret.modulations[j + 1]
        /\ "modulation_targets" \in DOMAIN result <=> LabelChanges # <<>>
        /\ "modulation_count" \in DOMAIN result <=> LabelChanges # <<>>
        /\ LabelChanges # <<>> =>
               /\ result["modulation_targets"] = LabelChanges
               /\ result["modulation_count"] = Len(result["modulation_targets"])

\* C major, a window whose analysis raises, then G major twice: one entry
C25_Witness ==
    /\ pc = "returned"
    /\ Len(score.windows) = 4
    /\ score.windows[1] = <<"key", Key_("C", "major")>>
    /\ score.windows[2] = <<"raises">>
    /\ score.windows[3] = <<"key", Key_("G", "major")>>
    /\ score.windows[4] = score.windows[3]
    /\ "modulation_count" \in DOMAIN result
    /\ result["modulation_count"] = 1
    /\ result["modulation_targets"] = <<<<"G", " ", "major">>>>

(***************************************************************************)
(* Claims about the final cadence, under SpecCadence.                      *)
(***************************************************************************)
\* the numeral of the n-th chord from the end: I, IV, V for the major chords
\* on the degrees 1, 4, 5, "other" for every other chord
NumeralFromEnd(n) ==
    LET c == score.chords[Len(score.chords) + 1 - n] IN
    IF c[2] # "major" THEN "other"
    ELSE IF c[1] = 1 THEN "I" ELSE IF c[1] = 4 THEN "IV" ELSE IF c[1] = 5 THEN "V" ELSE "other"

CadenceClassified == pc = "returned" /\ Len(score.chords) >= 2 /\ "final_cadence" \in DOMAIN result

\* C26: last=I with second-last in {V, V7} gives PAC; last=I with
\* second-last=IV gives plagal; last=V gives HC; last=I with any other
\* predecessor gives IAC; anything else gives the literal
\* "<second-last-figure>-<last-figure>"; exactly one label is produced, and
\* final_cadence is omitted when fewer than 2 simultaneities exist.
C26_CadenceDecision ==
    /\ pc = "returned" /\ Len(score.chords) < 2 => "final_cadence" \notin DOMAIN result
    /\ pc = "returned" /\ Len(score.chords) >= 2 /\ ~score.raises /\ score.analyzed_key # None
           => "final_cadence" \in DOMAIN result
    /\ CadenceClassified =>
          LET last == NumeralFromEnd(1)
              second_last == NumeralFromEnd(2)
              label == result["final_cadence"]
          IN  /\ last = "I" /\ second_last = "V" => label = <<"PAC">>
              /\ last = "I" /\ second_last = "IV" => label = <<"plagal">>
              /\ last = "V" => label = <<"HC">>
              /\ last = "I" /\ second_last \notin {"V", "IV"} => label = <<"IAC">>
              /\ last \notin {"I", "V"} =>
                    /\ Len(label) = 5
                    /\ label[3] = "-"
                    /\ <<label[1], label[2]>>
                          = romanNumeralFromChord(score.chords[Len(score.chords) - 1], None).figure
                    /\ <<label[4], label[5]>>
                          = romanNumeralFromChord(score.chords[Len(score.chords)], None).figure

\* a dominant seventh followed by the tonic closes the score: PAC
C26_Witness ==
    /\ pc = "returned"
    /\ score.chords = <<FinalChord(4, "major", ""), FinalChord(5, "major", "7"),
                        FinalChord(1, "major", "")>>
    /\ "final_cadence" \in DOMAIN result
    /\ result["final_cadence"] = <<"PAC">>

(***************************************************************************)
(* Claims about extract_melody, under SpecMelody.                          *)
(***************************************************************************)
\* the number of single notes of the first part
SingleNotes ==
    IF score.parts = <<>> THEN 0
    ELSE Cardinality({i \in 1..Len(score.parts[1]) : score.parts[1][i].cls = "Note"})

\* the consecutive pairs of single notes whose interval could be built
BuiltPairs == (1..(SingleNotes - 1)) \ score.raises

\* C27: with fewer than 2 single notes in the first part none of
\* interval_distribution, interval_count, largest_interval, stepwise_count
\* is written; when they are written for n >= 2 notes, interval_count
\* counts the consecutive note pairs, 0 <= stepwise_count <= interval_count,
\* and stepwise_count = interval_count whenever largest_interval <= 2.
C27_MelodyCounts ==
    pc = "returned" =>
        /\ SingleNotes < 2 => MelodyKeys \cap DOMAIN result = {}
        /\ MelodyKeys \cap DOMAIN result # {} <=> BuiltPairs # {}
        /\ BuiltPairs # {} =>
              /\ MelodyKeys \subseteq DOMAIN result
              /\ result["interval_count"] = Cardinality(BuiltPairs)
              /\ score.raises = {} => result["interval_count"] = SingleNotes - 1
              /\ 0 <= result["stepwise_count"]
              /\ result["stepwise_count"] <= result["interval_count"]
              /\ result["largest_interval"] <= 2 =>
                     result["stepwise_count"] = result["interval_count"]

\* a whole tone and a fourth: two intervals, one of them a step
C27_Witness ==
    /\ pc = "returned"
    /\ score.parts = <<<<Note_(60), Note_(62), Note_(67)>>>>
    /\ score.raises = {}
    /\ MelodyKeys \subseteq DOMAIN result
    /\ result["interval_count"] = 2
    /\ result["stepwise_count"] = 1
    /\ result["largest_interval"] = 5

(***************************************************************************)
(* The order of the lines of extract_batch, under SpecBatch.               *)
(***************************************************************************)
\* C28: extract_batch writes records in the order of the input path list
\* for every workers setting, including the parallel pool: the i-th line
\* written carries the i-th input path as file_path, regardless of the
\* order in which worker processes finish.
C28_LinesInInputOrder ==
    /\ \A i \in 1..Len(trace) : trace[i] = extract_one(score.paths[i])
    /\ pc = "pool" =>
           /\ cache.written = 1..Len(trace)
           /\ \A i \in DOMAIN cache.finished \ cache.written : i > Len(trace)

\* the worker on the third path has finished before the one on the second,
\* and only the first line has been written
C28_Witness ==
    /\ pc = "pool"
    /\ Len(score.paths) = 3
    /\ score.paths[1] # score.paths[3]
    /\ 3 \in DOMAIN cache.finished
    /\ 2 \in cache.started \ DOMAIN cache.finished
    /\ Len(trace) = 1
    /\ trace[1].file_path = score.paths[1]

(***************************************************************************)
(* The internal keys of the record of extract, under Spec.                 *)
(***************************************************************************)
InternalKeys == {"_cache", "_analyzed_key", "_warnings"}

\* the place of an analyzer in the order of invocation
InvocationOrder(name) == CHOOSE i \in 1..Len(ANALYZERS) : ANALYZERS[i] = name

\* C29: the record returned by extract never contains _cache, _analyzed_key
\* or _warnings, on the extracted path and on the failed path alike;
\* _extraction_warnings is present if and only if at least one warning was
\* appended, and it then lists the warnings in analyzer invocation order.
C29_InternalKeysRemoved ==
    pc = "done" =>
        /\ InternalKeys \cap DOMAIN result = {}
        /\ "_extraction_warnings" \in DOMAIN result <=> BoundaryWarnings(failures) # <<>>
        /\ "_extraction_warnings" \in DOMAIN result =>
              LET warnings == result["_extraction_warnings"] IN
              /\ warnings = BoundaryWarnings(failures)
              /\ \A j \in 1..Len(warnings) : warnings[j][1] \in AnalyzerNames
              /\ \A j \in 1..(Len(warnings) - 1) :
                    InvocationOrder(warnings[j][1]) < InvocationOrder(warnings[j + 1][1])

\* a returned record with warnings of two analyzers
C29_Witness ==
    /\ pc = "done"
    /\ Status = "extracted"
    /\ "_extraction_warnings" \in DOMAIN result
    /\ Len(result["_extraction_warnings"]) >= 2
    /\ result["_extraction_warnings"][1][1] # result["_extraction_warnings"][2][1]

=============================================================================
